---- MODULE Spec2Model ----
(***************************************************************************)
(* A model of the Cattle Brainfuck toolkit: the instruction tree, the      *)
(* program loader, the chunked tape and the tree-walking interpreter with  *)
(* its three handlers.                                                     *)
(*                                                                         *)
(* Conventions.  A C string is the sequence of its bytes without the       *)
(* terminating NUL; the NULL string is NullStr.  A pointer into a string   *)
(* is a 1-based index (Len+1 is the terminating NUL), 0 is NULL.  An       *)
(* instruction is an index in the heap `instructions` of the program, 0 is *)
(* NULL and 1 is the root.  gchar is a signed 8-bit integer.               *)
(***************************************************************************)
EXTENDS Integers, Sequences, FiniteSets, TLC

(* ------------------------------ bounds --------------------------------- *)

\* Runs of the interpreter in one behaviour.
MaxRuns == 2
\* Handler calls recorded (and allowed) in one run.
MaxTrace == 6
\* Iterations of the main loop of run() in one run.
MaxSteps == 40
MaxLen == 3
\* Calls made on a tape directly, one after the other.
MaxCalls == 3
\* The same, when the calls are those of a tour with bookmarks.
MaxMarks == 5

(* ------------------------- program constants --------------------------- *)

CATTLE_INSTRUCTION_NONE       == 95
CATTLE_INSTRUCTION_MOVE_LEFT  == 60
CATTLE_INSTRUCTION_MOVE_RIGHT == 62
CATTLE_INSTRUCTION_INCREASE   == 43
CATTLE_INSTRUCTION_DECREASE   == 45
CATTLE_INSTRUCTION_LOOP_BEGIN == 91
CATTLE_INSTRUCTION_LOOP_END   == 93
CATTLE_INSTRUCTION_READ       == 44
CATTLE_INSTRUCTION_PRINT      == 46
CATTLE_INSTRUCTION_DEBUG      == 35
BANG_SYMBOL                   == 33
CHUNK_SIZE                    == 128
\* EOF of <stdio.h>.  A gunichar (guint32) is written as the 32-bit signed
\* integer with the same bits, so (gunichar) EOF, 0xFFFFFFFF, is UEOF.
EOF  == -1
UEOF == -1

NULL    == 0
NullStr == <<0>>

\* C's remainder, which truncates towards zero.
CRem(a, b) == IF a >= 0 THEN a % b ELSE -((-a) % b)

\* Conversion of a gunichar to gchar: its low 8 bits, signed.
ToGchar(u) == LET b == u % 256 IN IF b >= 128 THEN b - 256 ELSE b

(* ------------------------------ UTF-8 ---------------------------------- *)

\* The byte a pointer designates; the terminating NUL reads as 0.
ByteAt(s, p) == IF p >= 1 /\ p <= Len(s) THEN s[p] ELSE 0

IsCont(b) == b >= 128 /\ b <= 191

\* g_utf8_skip[]: length of a sequence, from its first byte.
Utf8Skip(b) ==
  IF b < 192 THEN 1
  ELSE IF b < 224 THEN 2
  ELSE IF b < 240 THEN 3
  ELSE IF b < 248 THEN 4
  ELSE IF b < 252 THEN 5
  ELSE IF b < 254 THEN 6 ELSE 1

\* Is a well-formed sequence of Unicode text starting at p?
Utf8SeqOk(s, p) ==
  LET b0 == ByteAt(s, p)
      b1 == ByteAt(s, p + 1)
      b2 == ByteAt(s, p + 2)
      b3 == ByteAt(s, p + 3)
  IN  \/ b0 < 128
      \/ b0 >= 194 /\ b0 <= 223 /\ IsCont(b1)
      \/ /\ b0 >= 224 /\ b0 <= 239 /\ IsCont(b1) /\ IsCont(b2)
         /\ (b0 = 224 => b1 >= 160)
         /\ (b0 = 237 => b1 <= 159)
      \/ /\ b0 >= 240 /\ b0 <= 244 /\ IsCont(b1) /\ IsCont(b2) /\ IsCont(b3)
         /\ (b0 = 240 => b1 >= 144)
         /\ (b0 = 244 => b1 <= 143)

RECURSIVE Utf8ValidFrom(_, _)
Utf8ValidFrom(s, p) ==
  IF p > Len(s) THEN TRUE
  ELSE Utf8SeqOk(s, p) /\ Utf8ValidFrom(s, p + Utf8Skip(s[p]))

\* g_utf8_validate (str, -1, NULL)
g_utf8_validate(s) == Utf8ValidFrom(s, 1)

\* UTF8_COMPUTE: the length announced by a first byte, -1 when it is not one.
Utf8Length(b) ==
  IF b < 128 THEN 1
  ELSE IF b < 192 THEN -1
  ELSE IF b < 224 THEN 2
  ELSE IF b < 240 THEN 3
  ELSE IF b < 248 THEN 4
  ELSE IF b < 252 THEN 5
  ELSE IF b < 254 THEN 6 ELSE -1

\* UTF8_COMPUTE: the payload bits of a first byte.
Utf8FirstBits(b) ==
  IF b < 128 THEN b
  ELSE IF b < 224 THEN b % 32
  ELSE IF b < 240 THEN b % 16
  ELSE IF b < 248 THEN b % 8
  ELSE IF b < 252 THEN b % 4 ELSE b % 2

\* UTF8_GET: fold the n continuation bytes from p on into acc.
RECURSIVE Utf8Get(_, _, _, _)
Utf8Get(s, p, n, acc) ==
  IF n = 0 THEN acc
  ELSE IF ~ IsCont(ByteAt(s, p)) THEN UEOF
  ELSE Utf8Get(s, p + 1, n - 1, acc * 64 + (ByteAt(s, p) % 64))

\* g_utf8_get_char (p); (gunichar) -1 for a malformed sequence
g_utf8_get_char(s, p) ==
  LET b0 == ByteAt(s, p)
  IN  IF Utf8Length(b0) = -1 THEN UEOF
      ELSE Utf8Get(s, p + 1, Utf8Length(b0) - 1, Utf8FirstBits(b0))

\* g_utf8_next_char (p)
g_utf8_next_char(s, p) == p + Utf8Skip(ByteAt(s, p))

\* g_utf8_prev_char (p)
RECURSIVE g_utf8_prev_char(_, _)
g_utf8_prev_char(s, p) ==
  IF p - 1 > 1 /\ IsCont(ByteAt(s, p - 1))
  THEN g_utf8_prev_char(s, p - 1)
  ELSE p - 1

\* StrFrom, losing the first byte.
StrFrom_SkipOne(s, p) == [k \in 1..(Len(s) - p) |-> s[p + k]]

\* The text from a pointer to the terminating NUL.
StrFrom(s, p) == [k \in 1..(Len(s) + 1 - p) |-> s[p + k - 1]]

(* ------------------------------- tape ---------------------------------- *)
(* Chunks are numbered by their position relative to the first chunk       *)
(* (number 0); `head` and `last` are the numbers of the first and of the   *)
(* last chunk of the list, `current` the number of the current chunk.      *)

EmptyChunk == [k \in 0..(CHUNK_SIZE - 1) |-> 0]

\* cattle_tape_init
cattle_tape_new ==
  [ chunks      |-> [c \in {0} |-> EmptyChunk],
    head        |-> 0,
    last        |-> 0,
    current     |-> 0,
    offset      |-> 0,
    lower_limit |-> 0,
    upper_limit |-> 0,
    bookmarks   |-> << >> ]

cattle_tape_get_current_value(t) == t.chunks[t.current][t.offset]

\* The write chunk[offset] = value.
TapeStore(t, value) ==
  [t EXCEPT !.chunks[t.current][t.offset] = value]

cattle_tape_set_current_value(t, value) ==
  IF (value >= 0 /\ value <= 127) \/ value = EOF
  THEN TapeStore(t, value)
  ELSE t

RECURSIVE cattle_tape_increase_current_value_by(_, _)
\* cattle_tape_increase_current_value_by, wrapping as a signed byte does.
cattle_tape_increase_current_value_by_Byte(t, value) ==
  LET sum == (cattle_tape_get_current_value(t) + value) % 256
  IN  TapeStore(t, IF sum > 127 THEN sum - 256 ELSE sum)

cattle_tape_increase_current_value_by(t, value) ==
  LET current == cattle_tape_get_current_value(t)
      sum     == CRem(current + value, 128)
  IN  IF value = 0 THEN t
      ELSE IF current = EOF
      THEN IF value > 0
           THEN cattle_tape_increase_current_value_by(TapeStore(t, 0), value - 1)
           ELSE cattle_tape_increase_current_value_by(TapeStore(t, 127), value + 1)
      ELSE TapeStore(t, IF sum < 0 THEN 128 + sum ELSE sum)

cattle_tape_increase_current_value(t) ==
  cattle_tape_increase_current_value_by(t, 1)

cattle_tape_decrease_current_value_by(t, value) ==
  cattle_tape_increase_current_value_by(t, -value)

cattle_tape_decrease_current_value(t) ==
  cattle_tape_decrease_current_value_by(t, 1)

\* The chunk list with a zeroed chunk in front of the first one.
PrependChunk(t) ==
  [t EXCEPT !.chunks = [c \in (t.head - 1)..t.last |->
                          IF c = t.head - 1 THEN EmptyChunk ELSE t.chunks[c]],
            !.head = t.head - 1,
            !.lower_limit = CHUNK_SIZE - 1]

\* The chunk list with a zeroed chunk after the last one.
AppendChunk(t) ==
  [t EXCEPT !.chunks = [c \in t.head..(t.last + 1) |->
                          IF c = t.last + 1 THEN EmptyChunk ELSE t.chunks[c]],
            !.last = t.last + 1,
            !.upper_limit = 0]

RECURSIVE MoveLeftLoop(_, _)
\* MoveLeftLoop, counting one cell less for each chunk it leaves.
MoveLeftLoop_OffByOne(t, steps) ==
  IF steps > t.offset
  THEN LET t1 == IF t.current = t.head THEN PrependChunk(t) ELSE t
       IN  MoveLeftLoop([t1 EXCEPT !.current = t.current - 1,
                                   !.offset = CHUNK_SIZE - 1],
                        steps - t.offset)
  ELSE [t EXCEPT !.offset = t.offset - steps]

MoveLeftLoop(t, steps) ==
  IF steps > t.offset
  THEN LET t1 == IF t.current = t.head THEN PrependChunk(t) ELSE t
       IN  MoveLeftLoop([t1 EXCEPT !.current = t.current - 1,
                                   !.offset = CHUNK_SIZE - 1],
                        steps - (t.offset + 1))
  ELSE [t EXCEPT !.offset = t.offset - steps]

cattle_tape_move_left_by(t, steps) ==
  LET t1 == MoveLeftLoop(t, steps)
  IN  IF t1.current = t1.head /\ t1.offset < t1.lower_limit
      THEN [t1 EXCEPT !.lower_limit = t1.offset]
      ELSE t1

RECURSIVE MoveRightLoop(_, _)
MoveRightLoop(t, steps) ==
  IF t.offset + steps >= CHUNK_SIZE
  THEN LET t1 == IF t.current = t.last THEN AppendChunk(t) ELSE t
       IN  MoveRightLoop([t1 EXCEPT !.current = t.current + 1,
                                    !.offset = 0],
                         steps - (CHUNK_SIZE - t.offset))
  ELSE [t EXCEPT !.offset = t.offset + steps]

\* cattle_tape_move_right_by, raising the upper limit for a move of one
\* cell only.
cattle_tape_move_right_by_LimitOnOne(t, steps) ==
  LET t1 == MoveRightLoop(t, steps)
  IN  IF steps = 1 /\ t1.current = t1.last /\ t1.offset > t1.upper_limit
      THEN [t1 EXCEPT !.upper_limit = t1.offset]
      ELSE t1

cattle_tape_move_right_by(t, steps) ==
  LET t1 == MoveRightLoop(t, steps)
  IN  IF t1.current = t1.last /\ t1.offset > t1.upper_limit
      THEN [t1 EXCEPT !.upper_limit = t1.offset]
      ELSE t1

cattle_tape_move_left(t) == cattle_tape_move_left_by(t, 1)

cattle_tape_move_right(t) == cattle_tape_move_right_by(t, 1)

cattle_tape_is_at_beginning(t) ==
  t.current = t.head /\ t.offset = t.lower_limit

cattle_tape_is_at_end(t) ==
  t.current = t.last /\ t.offset = t.upper_limit

\* A bookmark is the current chunk and the offset in it.
cattle_tape_push_bookmark(t) ==
  [t EXCEPT !.bookmarks =
     << [chunk |-> t.current, offset |-> t.offset] >> \o t.bookmarks]

\* cattle_tape_pop_bookmark, taking the oldest bookmark.
cattle_tape_pop_bookmark_Oldest(t) ==
  IF t.bookmarks # << >>
  THEN [ret  |-> TRUE,
        tape |-> [t EXCEPT !.bookmarks = SubSeq(t.bookmarks, 1, Len(t.bookmarks) - 1),
                           !.current = t.bookmarks[Len(t.bookmarks)].chunk,
                           !.offset = t.bookmarks[Len(t.bookmarks)].offset]]
  ELSE [ret |-> FALSE, tape |-> t]

\* The value returned and the tape left.
cattle_tape_pop_bookmark(t) ==
  IF t.bookmarks # << >>
  THEN [ret  |-> TRUE,
        tape |-> [t EXCEPT !.bookmarks = Tail(t.bookmarks),
                           !.current = t.bookmarks[1].chunk,
                           !.offset = t.bookmarks[1].offset]]
  ELSE [ret |-> FALSE, tape |-> t]

(* --------------------------- instructions ------------------------------ *)

\* cattle_instruction_init
cattle_instruction_new ==
  [value |-> CATTLE_INSTRUCTION_NONE, quantity |-> 1, next |-> NULL, loop |-> NULL]

\* cattle_instruction_set_quantity: the instruction afterwards.
cattle_instruction_set_quantity(self, quantity) ==
  [self EXCEPT !.quantity = quantity]

SimpleInstructions ==
  { CATTLE_INSTRUCTION_MOVE_LEFT, CATTLE_INSTRUCTION_MOVE_RIGHT,
    CATTLE_INSTRUCTION_INCREASE, CATTLE_INSTRUCTION_DECREASE,
    CATTLE_INSTRUCTION_READ, CATTLE_INSTRUCTION_PRINT,
    CATTLE_INSTRUCTION_DEBUG }

(* ------------------------------ program -------------------------------- *)

\* cattle_program_init
cattle_program_new ==
  [instructions |-> <<cattle_instruction_new>>, input |-> NullStr]

\* The inner do-while of the loader: count the occurrences of `instruction`
\* that follow each other, leaving the pointer after the last one.
RECURSIVE Coalesce(_, _, _, _)
\* Coalesce, taking the byte that follows into the instruction as well.
Coalesce_OneMore(src, pos, instruction, quantity) ==
  LET next == g_utf8_get_char(src, pos)
      pos1 == IF next # 0 THEN g_utf8_next_char(src, pos) ELSE pos
  IN  IF next # 0 /\ next = instruction
      THEN Coalesce(src, pos1, instruction, quantity + 1)
      ELSE [ quantity |-> quantity + 1, pos |-> pos1 ]

Coalesce(src, pos, instruction, quantity) ==
  LET next == g_utf8_get_char(src, pos)
      pos1 == IF next # 0 THEN g_utf8_next_char(src, pos) ELSE pos
  IN  IF next # 0 /\ next = instruction
      THEN Coalesce(src, pos1, instruction, quantity + 1)
      ELSE [ quantity |-> quantity + 1,
             pos      |-> IF next # 0 THEN g_utf8_prev_char(src, pos1) ELSE pos1 ]

\* load_from_string_real: returns the first instruction of the chain, the
\* pointer where parsing stopped, and the heap with the chain added.
RECURSIVE load_from_string_real(_, _, _)
RECURSIVE LoadLoop(_, _, _, _, _)
LoadLoop(src, pos, heap, first, current) ==
  LET instruction == g_utf8_get_char(src, pos)
      pos1        == g_utf8_next_char(src, pos)
  IN  IF instruction = 0
      THEN [first |-> first, pos |-> pos, heap |-> heap]
      ELSE IF instruction = BANG_SYMBOL
      THEN [first |-> first, pos |-> pos1, heap |-> heap]
      ELSE IF instruction = CATTLE_INSTRUCTION_LOOP_BEGIN
      THEN LET r  == load_from_string_real(src, pos1, heap)
               h1 == [r.heap EXCEPT ![current].value = CATTLE_INSTRUCTION_LOOP_BEGIN,
                                    ![current].loop = r.first]
               h2 == Append(h1, cattle_instruction_new)
               h3 == [h2 EXCEPT ![current].next = Len(h2)]
           IN  LoadLoop(src, r.pos, h3, first, Len(h2))
      ELSE IF instruction = CATTLE_INSTRUCTION_LOOP_END
      THEN [ first |-> first, pos |-> pos1,
             heap  |-> [heap EXCEPT ![current].value = CATTLE_INSTRUCTION_LOOP_END] ]
      ELSE IF instruction \in SimpleInstructions
      THEN LET c  == Coalesce(src, pos1, instruction, 0)
               h1 == [heap EXCEPT ![current].value = instruction,
                                  ![current].quantity = c.quantity]
               h2 == Append(h1, cattle_instruction_new)
               h3 == [h2 EXCEPT ![current].next = Len(h2)]
           IN  LoadLoop(src, c.pos, h3, first, Len(h2))
      ELSE LoadLoop(src, pos1, heap, first, current)

\* load_from_string_real, starting every chain with two instructions.
load_from_string_real_TwoFirst(src, pos, heap) ==
  LET h1 == Append(heap, [cattle_instruction_new EXCEPT
                             !.value = CATTLE_INSTRUCTION_LOOP_END,
                             !.next = Len(heap) + 2])
      h2 == Append(h1, cattle_instruction_new)
  IN  LoadLoop(src, pos, h2, Len(h1), Len(h2))

load_from_string_real(src, pos, heap) ==
  LET h1 == Append(heap, cattle_instruction_new)
  IN  LoadLoop(src, pos, h1, Len(h1), Len(h1))

\* The balance pre-pass, counting the brackets of the whole buffer.
RECURSIVE BracketsCheck_PastBang(_, _, _)
BracketsCheck_PastBang(src, pos, brackets_count) ==
  IF brackets_count < 0 THEN "unmatched"
  ELSE LET temp  == g_utf8_get_char(src, pos)
           count == IF temp = CATTLE_INSTRUCTION_LOOP_BEGIN THEN brackets_count + 1
                    ELSE IF temp = CATTLE_INSTRUCTION_LOOP_END THEN brackets_count - 1
                    ELSE brackets_count
       IN  IF temp # 0
           THEN BracketsCheck_PastBang(src, g_utf8_next_char(src, pos), count)
           ELSE IF count # 0 THEN "unbalanced" ELSE "ok"

\* The balance pre-pass of the loader: "unmatched", "unbalanced" or "ok".
RECURSIVE BracketsCheck(_, _, _)
BracketsCheck(src, pos, brackets_count) ==
  IF brackets_count < 0 THEN "unmatched"
  ELSE LET temp  == g_utf8_get_char(src, pos)
           count == IF temp = CATTLE_INSTRUCTION_LOOP_BEGIN THEN brackets_count + 1
                    ELSE IF temp = CATTLE_INSTRUCTION_LOOP_END THEN brackets_count - 1
                    ELSE brackets_count
       IN  IF temp # 0 /\ temp # BANG_SYMBOL
           THEN BracketsCheck(src, g_utf8_next_char(src, pos), count)
           ELSE IF count # 0 THEN "unbalanced" ELSE "ok"

\* cattle_program_load_from_string, handing back an empty program when it
\* fails.
cattle_program_load_from_string_Reset(prog, src) ==
  IF ~ g_utf8_validate(src)
  THEN [ok |-> FALSE, error |-> "BAD_UTF8", program |-> cattle_program_new]
  ELSE LET check == BracketsCheck(src, 1, 0)
       IN  IF check = "unmatched"
           THEN [ok |-> FALSE, error |-> "UNMATCHED_BRACKET", program |-> cattle_program_new]
           ELSE IF check = "unbalanced"
           THEN [ok |-> FALSE, error |-> "UNBALANCED_BRACKETS", program |-> cattle_program_new]
           ELSE LET r    == load_from_string_real(src, 1, << >>)
                    rest == StrFrom(src, r.pos)
                IN  [ ok      |-> TRUE,
                      error   |-> "none",
                      program |-> [ instructions |-> r.heap,
                                    input |-> IF Len(rest) > 0 THEN rest
                                              ELSE NullStr ] ]

\* cattle_program_load_from_string, keeping the input the program had when
\* the string brings none.
cattle_program_load_from_string_KeepInput(prog, src) ==
  IF ~ g_utf8_validate(src)
  THEN [ok |-> FALSE, error |-> "BAD_UTF8", program |-> prog]
  ELSE LET check == BracketsCheck(src, 1, 0)
       IN  IF check = "unmatched"
           THEN [ok |-> FALSE, error |-> "UNMATCHED_BRACKET", program |-> prog]
           ELSE IF check = "unbalanced"
           THEN [ok |-> FALSE, error |-> "UNBALANCED_BRACKETS", program |-> prog]
           ELSE LET r    == load_from_string_real(src, 1, << >>)
                    rest == StrFrom(src, r.pos)
                IN  [ ok      |-> TRUE,
                      error   |-> "none",
                      program |-> [ instructions |-> r.heap,
                                    input |-> IF Len(rest) > 0 THEN rest
                                              ELSE prog.input ] ]

\* cattle_program_load_from_string: the outcome and the program afterwards.
cattle_program_load_from_string(prog, src) ==
  IF ~ g_utf8_validate(src)
  THEN [ok |-> FALSE, error |-> "BAD_UTF8", program |-> prog]
  ELSE LET check == BracketsCheck(src, 1, 0)
       IN  IF check = "unmatched"
           THEN [ok |-> FALSE, error |-> "UNMATCHED_BRACKET", program |-> prog]
           ELSE IF check = "unbalanced"
           THEN [ok |-> FALSE, error |-> "UNBALANCED_BRACKETS", program |-> prog]
           ELSE LET r    == load_from_string_real(src, 1, << >>)
                    rest == StrFrom(src, r.pos)
                IN  [ ok      |-> TRUE,
                      error   |-> "none",
                      program |-> [ instructions |-> r.heap,
                                    input |-> IF Len(rest) > 0 THEN rest
                                              ELSE NullStr ] ]

(* ---------------------------- interpreter ------------------------------ *)

\* The programs the caller loads, as source text.
Sources ==
  { << >>,
    <<43, 91, 46, 45, 93>>,                     \* +[.-]
    <<43, 43, 91, 62, 43, 60, 45, 93, 62>>,     \* ++[>+<-]>
    <<43, 91, 91, 45, 93, 93>>,                 \* +[[-]]
    <<91, 45, 93, 43>>,                         \* [-]+
    <<43, 91, 93>>,                             \* +[]
    <<91>>,                                     \* [
    <<93, 91>>,                                 \* ][
    <<44>>,                                     \* ,
    <<44, 44>>,                                 \* ,,
    <<43, 44, 46>>,                             \* +,.
    <<44, 46, 44, 35, 46>>,                     \* ,.,#.
    <<43, 46, 46, 46>>,                         \* +...
    <<35, 35>>,                                 \* ##
    <<44, 62, 44, 33, 97>>,                     \* ,>,!a
    <<43, 44, 44, 44, 33, 97, 98>>,             \* +,,,!ab
    <<44, 46, 44, 46, 33, 97>>,                 \* ,.,.!a
    <<44, 44, 33, 97, 98, 99>> }                \* ,,!abc

\* The trees the caller builds by hand and installs with
\* cattle_program_set_instructions: `[+++` without its `]`, and the same
\* tree with the first instruction turned into a `]`.
UnbalancedBegin ==
  << [value |-> CATTLE_INSTRUCTION_LOOP_BEGIN, quantity |-> 1, next |-> NULL, loop |-> 2],
     [value |-> CATTLE_INSTRUCTION_INCREASE, quantity |-> 3, next |-> NULL, loop |-> NULL] >>

UnbalancedEnd ==
  [UnbalancedBegin EXCEPT ![1].value = CATTLE_INSTRUCTION_LOOP_END]

HandBuilt == { UnbalancedBegin, UnbalancedEnd }

\* The bytes the strings given to the loader are made of: two opcodes that
\* coalesce, the brackets, the bang and a comment byte.
LoaderAlphabet == {43, 45, 91, 93, 33, 120}     \* + - [ ] ! x

\* All the strings of at most n bytes of the alphabet.
RECURSIVE Strings(_)
Strings(n) ==
  IF n = 0 THEN { << >> }
  ELSE LET S == Strings(n - 1)
       IN  S \cup { Append(str, c) : str \in S, c \in LoaderAlphabet }

\* The strings the loader is given: every short string, the programs above
\* and some longer ones.
LoaderSources ==
  Strings(MaxLen) \cup Sources \cup
  { <<91, 91, 93, 93>>,                         \* [[]]
    <<43, 43, 43, 43, 43>>,                     \* +++++
    <<43, 43, 43, 62, 45, 60, 91, 45, 93>>,     \* +++>-<[-]
    <<44, 91, 43, 46, 44, 93, 33, 115, 111>>,   \* ,[+.,]!so
    <<91, 43, 91, 45, 93, 93, 43>>,             \* [+[-]]+
    <<43, 120, 43, 43, 33, 91>>,                \* +x++![
    <<91, 33, 93>>,                             \* [!]
    <<43, 195, 169, 43>>,                       \* + U+00E9 +
    <<200>>,                                    \* not UTF-8
    <<91, 200, 93>> }                           \* [ not UTF-8 ]

\* What a handler passes to cattle_interpreter_feed().
FeedArgs ==
  { NullStr,
    << >>,                                      \* ""
    <<119, 104>>,                               \* "wh"
    <<195, 169>>,                               \* U+00E9, two bytes
    <<200>> }                                   \* not UTF-8

\* Values the caller stores in the current cell before running.
InitValues == {2}

\* What an output or debug handler passes to it, when it feeds at all.
OtherFeedArgs == { <<119, 104>> }               \* "wh"

\* What one invocation of a handler does: the call of feed it makes, if
\* any, its return value, and whether it sets the error.
FeedCalls(kind) ==
  { << >> } \cup
  { <<arg>> : arg \in IF kind = "input" THEN FeedArgs ELSE OtherFeedArgs }

HandlerOutcomes(kind) ==
  [ret : BOOLEAN, err : BOOLEAN, feeds : FeedCalls(kind)]

NoError      == [code |-> "none", message |-> ""]
HandlerError == [code |-> "IO", message |-> "Spurious error"]
UnknownIO    == [code |-> "IO", message |-> "Unknown I/O error"]
Unbalanced   == [code |-> "UNBALANCED_BRACKETS", message |-> "Unbalanced brackets"]
BadUtf8      == [code |-> "BAD_UTF8", message |-> "Invalid UTF-8 input"]
OutOfRange   == [code |-> "INPUT_OUT_OF_RANGE", message |-> "Non-ASCII input is not supported"]

VARIABLES
  configuration,         \* [end_of_input_action, debug_is_enabled]
  program,               \* [instructions, input]
  loaded,                \* the last cattle_program_load_from_string(): [string, success, error]
  tape,
  stack,                 \* priv->stack, top first
  had_input,
  input,
  input_cursor,
  end_of_input_reached,
  pc,                    \* "idle", or "running" inside run()
  current,               \* run(): the current instruction
  i,                     \* run(): index of the inner for loop
  temp,                  \* run(): the character just read
  result,                \* what the last cattle_interpreter_run() returned
  trace,                 \* the handler calls of the last run, in order
  runs,
  steps,
  calls                  \* the calls made on the tape directly, in order

vars == << configuration, program, loaded, tape, stack, had_input, input, input_cursor,
           end_of_input_reached, pc, current, i, temp, result, trace,
           runs, steps, calls >>

\* cattle_configuration_init
cattle_configuration_new ==
  [end_of_input_action |-> "STORE_ZERO", debug_is_enabled |-> FALSE]

\* cattle_interpreter_init
Init ==
  /\ configuration = cattle_configuration_new
  /\ program = cattle_program_new
  /\ loaded = [string |-> NullStr, success |-> TRUE, error |-> "none"]
  /\ calls = << >>
  /\ tape = cattle_tape_new
  /\ stack = << >>
  /\ had_input = FALSE
  /\ input = NullStr
  /\ input_cursor = NULL
  /\ end_of_input_reached = FALSE
  /\ pc = "idle"
  /\ current = NULL
  /\ i = 0
  /\ temp = 0
  /\ result = [success |-> TRUE, error |-> NoError]
  /\ trace = << >>
  /\ runs = 0
  /\ steps = 0

\* The interpreter's input state as a record, for feed().
InputState == [input |-> input, input_cursor |-> input_cursor,
               end_of_input_reached |-> end_of_input_reached]

\* cattle_interpreter_feed
cattle_interpreter_feed(st, arg) ==
  IF arg = NullStr
  THEN [input |-> NullStr, input_cursor |-> NULL, end_of_input_reached |-> TRUE]
  ELSE [st EXCEPT !.input = arg, !.input_cursor = 1]

\* The feed() calls of one handler invocation, in order.
RECURSIVE FeedAll(_, _)
FeedAll(st, feeds) ==
  IF feeds = << >> THEN st
  ELSE FeedAll(cattle_interpreter_feed(st, Head(feeds)), Tail(feeds))

\* HandlerSucceeded, trusting the return value alone.
HandlerSucceeded_RetOnly(h) == h.ret

\* success = (*handler) (...); success &= (inner_error == NULL);
HandlerSucceeded(h) == h.ret /\ ~ h.err

\* The error run() reports for a failed handler call.
HandlerFailure(h) == IF h.err THEN HandlerError ELSE UnknownIO

Node(n) == program.instructions[n]

\* The record of a handler call: which instruction made it, in which
\* iteration of its for loop, with which value, and what the handler did.
Call(kind, value, h) ==
  [kind |-> kind, node |-> current, unit |-> i + 1, value |-> value,
   ret |-> h.ret, err |-> h.err, feeds |-> h.feeds]

(* ------------------------- setting up, idle ---------------------------- *)

\* The caller prepares the interpreter before it runs the program.
Setup == pc = "idle" /\ runs = 0

cattle_program_load(src) ==
  /\ Setup
  /\ LET r == cattle_program_load_from_string(program, src)
     IN  /\ program' = r.program
         /\ loaded' = [string |-> src, success |-> r.ok, error |-> r.error]
  /\ UNCHANGED << configuration, calls, tape, stack, had_input, input, input_cursor,
                  end_of_input_reached, pc, current, i, temp, result, trace,
                  runs, steps >>

cattle_program_set_instructions(instructions) ==
  /\ Setup
  /\ program' = [program EXCEPT !.instructions = instructions]
  /\ UNCHANGED << configuration, loaded, calls, tape, stack, had_input, input,
                  input_cursor, end_of_input_reached, pc, current, i, temp,
                  result, trace, runs, steps >>

cattle_configuration_set_end_of_input_action(action) ==
  /\ Setup
  /\ configuration' = [configuration EXCEPT !.end_of_input_action = action]
  /\ UNCHANGED << program, loaded, calls, tape, stack, had_input, input, input_cursor,
                  end_of_input_reached, pc, current, i, temp, result, trace,
                  runs, steps >>

cattle_configuration_set_debug_is_enabled(enabled) ==
  /\ Setup
  /\ configuration' = [configuration EXCEPT !.debug_is_enabled = enabled]
  /\ UNCHANGED << program, loaded, calls, tape, stack, had_input, input, input_cursor,
                  end_of_input_reached, pc, current, i, temp, result, trace,
                  runs, steps >>

TapeSetCurrentValue(value) ==
  /\ Setup
  /\ tape' = cattle_tape_set_current_value(tape, value)
  /\ UNCHANGED << configuration, program, loaded, calls, stack, had_input, input,
                  input_cursor,
                  end_of_input_reached, pc, current, i, temp, result, trace,
                  runs, steps >>

\* cattle_interpreter_feed() called by the caller, outside of any handler.
FeedIdle(arg) ==
  /\ pc = "idle" /\ runs < MaxRuns
  /\ LET st == cattle_interpreter_feed(InputState, arg)
     IN  /\ input' = st.input
         /\ input_cursor' = st.input_cursor
         /\ end_of_input_reached' = st.end_of_input_reached
  /\ UNCHANGED << configuration, program, loaded, calls, tape, stack, had_input, pc,
                  current,
                  i, temp, result, trace, runs, steps >>

(* ------------------------------- run ----------------------------------- *)

\* cattle_interpreter_run, starting from the input left by the last run.
cattle_interpreter_run_KeepInput ==
  /\ pc = "idle" /\ runs < MaxRuns
  /\ stack' = << >>
  /\ input' = input
  /\ had_input' = (program.input # NullStr)
  /\ input_cursor' = input_cursor
  /\ current' = 1
  /\ pc' = "running"
  /\ i' = 0
  /\ temp' = 0
  /\ trace' = << >>
  /\ runs' = runs + 1
  /\ steps' = 0
  /\ UNCHANGED << configuration, program, loaded, calls, tape, end_of_input_reached,
                  result >>

\* cattle_interpreter_run up to the call of run(), and run() up to its loop.
cattle_interpreter_run ==
  /\ pc = "idle" /\ runs < MaxRuns
  /\ stack' = << >>
  /\ input' = program.input
  /\ had_input' = (program.input # NullStr)
  /\ input_cursor' = IF program.input # NullStr THEN 1 ELSE NULL
  /\ current' = 1
  /\ pc' = "running"
  /\ i' = 0
  /\ temp' = 0
  /\ trace' = << >>
  /\ runs' = runs + 1
  /\ steps' = 0
  /\ UNCHANGED << configuration, program, loaded, calls, tape, end_of_input_reached,
                  result >>

\* run() returns, and cattle_interpreter_run cleans up and returns.
Return(success, error, st) ==
  /\ pc' = "idle"
  /\ result' = [success |-> success, error |-> error]
  /\ input' = IF had_input THEN NullStr ELSE st.input
  /\ input_cursor' = IF had_input THEN NULL ELSE st.input_cursor
  /\ end_of_input_reached' = st.end_of_input_reached
  /\ had_input' = FALSE
  /\ stack' = << >>
  /\ current' = NULL
  /\ i' = 0
  /\ temp' = 0

\* next = cattle_instruction_get_next (current); current = next;
Advance ==
  /\ current' = Node(current).next
  /\ i' = 0

Running(value) ==
  /\ pc = "running"
  /\ current # NULL
  /\ Node(current).value = value
  /\ steps < MaxSteps
  /\ steps' = steps + 1
  /\ UNCHANGED << configuration, program, loaded, calls, runs >>

\* RunLoopBegin, entering the loop without remembering where to return.
RunLoopBegin_NoPush ==
  /\ Running(CATTLE_INSTRUCTION_LOOP_BEGIN)
  /\ IF cattle_tape_get_current_value(tape) # 0
     THEN /\ stack' = stack
          /\ current' = Node(current).loop
          /\ i' = i
     ELSE /\ stack' = stack
          /\ Advance
  /\ UNCHANGED << tape, had_input, input, input_cursor, end_of_input_reached,
                  pc, temp, result, trace >>

RunLoopBegin ==
  /\ Running(CATTLE_INSTRUCTION_LOOP_BEGIN)
  /\ IF cattle_tape_get_current_value(tape) # 0
     THEN /\ stack' = <<current>> \o stack
          /\ current' = Node(current).loop
          /\ i' = i
     ELSE /\ stack' = stack
          /\ Advance
  /\ UNCHANGED << tape, had_input, input, input_cursor, end_of_input_reached,
                  pc, temp, result, trace >>

\* RunLoopEnd, going back to the top of the stack without popping it.
RunLoopEnd_KeepStack ==
  /\ Running(CATTLE_INSTRUCTION_LOOP_END)
  /\ IF stack = << >>
     THEN Return(FALSE, Unbalanced, InputState)
     ELSE /\ current' = Head(stack)
          /\ stack' = stack
          /\ UNCHANGED << had_input, input, input_cursor, end_of_input_reached,
                          pc, i, temp, result >>
  /\ UNCHANGED << tape, trace >>

RunLoopEnd ==
  /\ Running(CATTLE_INSTRUCTION_LOOP_END)
  /\ IF stack = << >>
     THEN Return(FALSE, Unbalanced, InputState)
     ELSE /\ current' = Head(stack)
          /\ stack' = Tail(stack)
          /\ UNCHANGED << had_input, input, input_cursor, end_of_input_reached,
                          pc, i, temp, result >>
  /\ UNCHANGED << tape, trace >>

\* An instruction that only acts on the tape, leaving it as t.
RunTape(value, t) ==
  /\ Running(value)
  /\ tape' = t
  /\ Advance
  /\ UNCHANGED << stack, had_input, input, input_cursor, end_of_input_reached,
                  pc, temp, result, trace >>

RunMoveLeft ==
  RunTape(CATTLE_INSTRUCTION_MOVE_LEFT,
          cattle_tape_move_left_by(tape, Node(current).quantity))

RunMoveRight ==
  RunTape(CATTLE_INSTRUCTION_MOVE_RIGHT,
          cattle_tape_move_right_by(tape, Node(current).quantity))

RunIncrease ==
  RunTape(CATTLE_INSTRUCTION_INCREASE,
          cattle_tape_increase_current_value_by(tape, Node(current).quantity))

RunDecrease ==
  RunTape(CATTLE_INSTRUCTION_DECREASE,
          cattle_tape_decrease_current_value_by(tape, Node(current).quantity))

RunNone ==
  /\ Running(CATTLE_INSTRUCTION_NONE)
  /\ Advance
  /\ UNCHANGED << tape, stack, had_input, input, input_cursor,
                  end_of_input_reached, pc, temp, result, trace >>

\* RunEnd, not looking at the stack.
RunEnd_IgnoreStack ==
  /\ pc = "running"
  /\ current = NULL
  /\ Return(TRUE, NoError, InputState)
  /\ UNCHANGED << configuration, program, loaded, calls, tape, trace, runs, steps >>

\* RunEnd, freeing the input of the program itself and not a copy of it.
RunEnd_FreeInput ==
  /\ pc = "running"
  /\ current = NULL
  /\ IF stack # << >>
     THEN Return(FALSE, Unbalanced, InputState)
     ELSE Return(TRUE, NoError, InputState)
  /\ program' = [program EXCEPT !.input = IF had_input THEN NullStr ELSE @]
  /\ UNCHANGED << configuration, loaded, calls, tape, trace, runs, steps >>

\* The loop of run() is over: the stack tells whether brackets were balanced.
RunEnd ==
  /\ pc = "running"
  /\ current = NULL
  /\ IF stack # << >>
     THEN Return(FALSE, Unbalanced, InputState)
     ELSE Return(TRUE, NoError, InputState)
  /\ UNCHANGED << configuration, program, loaded, calls, tape, trace, runs, steps >>

(* ----------------------- run: the three handlers ----------------------- *)

\* The input state after a handler invocation becomes the interpreter's.
SetInputState(st) ==
  /\ input' = st.input
  /\ input_cursor' = st.input_cursor
  /\ end_of_input_reached' = st.end_of_input_reached

\* NeedsInput, forgetting that the program came with its input.
NeedsInput_IgnoreHadInput ==
  /\ ~ end_of_input_reached
  /\ \/ input_cursor = NULL
     \/ g_utf8_get_char(input, input_cursor) = 0

\* NeedsInput, asking for input again after its end has been reached.
NeedsInput_IgnoreEnd ==
  /\ had_input = FALSE
  /\ \/ input_cursor = NULL
     \/ g_utf8_get_char(input, input_cursor) = 0

\* STEP 1 of a read: does the interpreter ask the input handler for input?
NeedsInput ==
  /\ had_input = FALSE
  /\ ~ end_of_input_reached
  /\ \/ input_cursor = NULL
     \/ g_utf8_get_char(input, input_cursor) = 0

\* The safety measure between STEP 1 and STEP 2: no input means end of input.
ReadGuard(st) ==
  IF st.input = NullStr THEN [st EXCEPT !.end_of_input_reached = TRUE] ELSE st

\* STEP 2 of a read: the character, and the input state after taking it.
ReadChar(st) ==
  LET c == g_utf8_get_char(st.input, st.input_cursor)
  IN  IF st.end_of_input_reached
      THEN [temp |-> UEOF, st |-> st]
      ELSE IF c = 0
      THEN IF had_input = FALSE
           THEN [temp |-> UEOF, st |-> [st EXCEPT !.end_of_input_reached = TRUE]]
           ELSE [temp |-> 0, st |-> st]
      ELSE [temp |-> c,
            st   |-> [st EXCEPT !.input_cursor = g_utf8_next_char(st.input, st.input_cursor)]]

\* The check that the character is ASCII or EOF (an unsigned comparison:
\* the characters up to 127 are those written 0..127).
InRange(t) == (t >= 0 /\ t <= 127) \/ t = UEOF

\* STEP 3 of a read: the tape after the character has been dealt with
\* (ReadStore); before it, the same with the two storing end-of-input actions
\* exchanged.
ReadStore_Swapped(t, c) ==
  IF c = UEOF
  THEN IF configuration.end_of_input_action = "STORE_EOF"
       THEN cattle_tape_set_current_value(t, 0)
       ELSE IF configuration.end_of_input_action = "STORE_ZERO"
       THEN cattle_tape_set_current_value(t, ToGchar(c))
       ELSE t
  ELSE cattle_tape_set_current_value(t, ToGchar(c))

ReadStore(t, c) ==
  IF c = UEOF
  THEN IF configuration.end_of_input_action = "STORE_ZERO"
       THEN cattle_tape_set_current_value(t, 0)
       ELSE IF configuration.end_of_input_action = "STORE_EOF"
       THEN cattle_tape_set_current_value(t, ToGchar(c))
       ELSE t
  ELSE cattle_tape_set_current_value(t, ToGchar(c))

\* One iteration of the for loop of a read, after STEP 1; when it is the
\* last one, STEP 3 and the move to the next instruction follow.
ReadRest(st) ==
  LET st2 == ReadGuard(st)
      r   == ReadChar(st2)
  IN  IF st2.input # NullStr /\ ~ g_utf8_validate(st2.input)
      THEN /\ Return(FALSE, BadUtf8, st2)
           /\ UNCHANGED tape
      ELSE IF ~ InRange(r.temp)
      THEN /\ Return(FALSE, OutOfRange, r.st)
           /\ UNCHANGED tape
      ELSE /\ SetInputState(r.st)
           /\ temp' = r.temp
           /\ IF i + 1 < Node(current).quantity
              THEN /\ i' = i + 1
                   /\ UNCHANGED << current, tape >>
              ELSE /\ tape' = ReadStore(tape, r.temp)
                   /\ Advance
           /\ UNCHANGED << stack, had_input, pc, result >>

\* RunRead, applying the end-of-input action when the handler fails.
RunRead_StoreOnFailure ==
  /\ Running(CATTLE_INSTRUCTION_READ)
  /\ IF NeedsInput
     THEN /\ Len(trace) < MaxTrace
          /\ \E h \in HandlerOutcomes("input") :
               /\ trace' = Append(trace, Call("input", 0, h))
               /\ IF HandlerSucceeded(h)
                  THEN ReadRest(FeedAll(InputState, h.feeds))
                  ELSE /\ Return(FALSE, HandlerFailure(h), FeedAll(InputState, h.feeds))
                       /\ tape' = ReadStore(tape, UEOF)
     ELSE /\ trace' = trace
          /\ ReadRest(InputState)

RunRead ==
  /\ Running(CATTLE_INSTRUCTION_READ)
  /\ IF NeedsInput
     THEN /\ Len(trace) < MaxTrace
          /\ \E h \in HandlerOutcomes("input") :
               /\ trace' = Append(trace, Call("input", 0, h))
               /\ IF HandlerSucceeded(h)
                  THEN ReadRest(FeedAll(InputState, h.feeds))
                  ELSE /\ Return(FALSE, HandlerFailure(h), FeedAll(InputState, h.feeds))
                       /\ UNCHANGED tape
     ELSE /\ trace' = trace
                  /\ ReadRest(InputState)

\* HandlerUnit, with a for loop that runs once too often.
HandlerUnit_OneMore(kind, value) ==
  /\ Len(trace) < MaxTrace
  /\ \E h \in HandlerOutcomes(kind) :
       /\ trace' = Append(trace, Call(kind, value, h))
       /\ IF HandlerSucceeded(h)
          THEN /\ SetInputState(FeedAll(InputState, h.feeds))
               /\ IF i + 1 <= Node(current).quantity
                  THEN /\ i' = i + 1
                       /\ current' = current
                  ELSE Advance
               /\ UNCHANGED << stack, had_input, pc, temp, result >>
          ELSE Return(FALSE, HandlerFailure(h), FeedAll(InputState, h.feeds))
  /\ UNCHANGED tape

\* One iteration of the for loop of a print or of a debug: a handler call.
HandlerUnit(kind, value) ==
  /\ Len(trace) < MaxTrace
  /\ \E h \in HandlerOutcomes(kind) :
       /\ trace' = Append(trace, Call(kind, value, h))
       /\ IF HandlerSucceeded(h)
          THEN /\ SetInputState(FeedAll(InputState, h.feeds))
               /\ IF i + 1 < Node(current).quantity
                  THEN /\ i' = i + 1
                       /\ current' = current
                  ELSE Advance
               /\ UNCHANGED << stack, had_input, pc, temp, result >>
          ELSE Return(FALSE, HandlerFailure(h), FeedAll(InputState, h.feeds))
  /\ UNCHANGED tape

\* An instruction whose for loop has nothing (left) to do.
Skip ==
  /\ Advance
  /\ UNCHANGED << tape, stack, had_input, input, input_cursor,
                  end_of_input_reached, pc, temp, result, trace >>

RunPrint ==
  /\ Running(CATTLE_INSTRUCTION_PRINT)
  /\ IF i < Node(current).quantity
     THEN HandlerUnit("output", cattle_tape_get_current_value(tape))
     ELSE Skip

\* RunDebug, not looking at the configuration.
RunDebug_Always ==
  /\ Running(CATTLE_INSTRUCTION_DEBUG)
  /\ IF i < Node(current).quantity
     THEN HandlerUnit("debug", 0)
     ELSE Skip

RunDebug ==
  /\ Running(CATTLE_INSTRUCTION_DEBUG)
  /\ IF configuration.debug_is_enabled /\ i < Node(current).quantity
     THEN HandlerUnit("debug", 0)
     ELSE Skip

(* --------------------------- specification ----------------------------- *)

EndOfInputActions == {"STORE_ZERO", "STORE_EOF", "DO_NOTHING"}

Next ==
  \/ \E src \in Sources : cattle_program_load(src)
  \/ \E instructions \in HandBuilt : cattle_program_set_instructions(instructions)
  \/ \E action \in EndOfInputActions : cattle_configuration_set_end_of_input_action(action)
  \/ \E enabled \in BOOLEAN : cattle_configuration_set_debug_is_enabled(enabled)
  \/ \E value \in InitValues : TapeSetCurrentValue(value)
  \/ \E arg \in FeedArgs : FeedIdle(arg)
  \/ cattle_interpreter_run
  \/ RunLoopBegin
  \/ RunLoopEnd
  \/ RunMoveLeft
  \/ RunMoveRight
  \/ RunIncrease
  \/ RunDecrease
  \/ RunRead
  \/ RunPrint
  \/ RunDebug
  \/ RunNone
  \/ RunEnd

Spec == Init /\ [][Next]_vars

(* ------------------------- the loader alone ---------------------------- *)

\* The caller loads one string after the other into the same program, and
\* stops at the first load that fails.
LoaderNext ==
  \E src \in LoaderSources : loaded.success /\ cattle_program_load(src)

LoaderSpec == Init /\ [][LoaderNext]_vars

(* ---------------------- the instructions alone ------------------------ *)

\* The quantities the caller sets.
Quantities == {0, 2}

\* The caller sets the quantity of the instruction n of the tree; the call
\* is recorded with its argument and, as ret, the instruction it was made on.
InstructionSetQuantity(n, quantity) ==
  /\ Setup
  /\ Len(calls) < MaxCalls
  /\ n \in DOMAIN program.instructions
  /\ program' = [program EXCEPT
                    !.instructions[n] = cattle_instruction_set_quantity(@, quantity)]
  /\ calls' = Append(calls, [name |-> "set_quantity", arg |-> quantity,
                             tape |-> tape, ret |-> n])
  /\ UNCHANGED << configuration, loaded, tape, stack, had_input, input,
                  input_cursor, end_of_input_reached, pc, current, i, temp,
                  result, trace, runs, steps >>

\* The caller loads a program, then sets quantities in its tree.
InstructionNext ==
  \/ \E src \in Sources : loaded.string = NullStr /\ cattle_program_load(src)
  \/ \E n \in 1..9, quantity \in Quantities : InstructionSetQuantity(n, quantity)

InstructionSpec == Init /\ [][InstructionNext]_vars

(* ------------------ a tree and the same tree expanded ------------------ *)

\* The programs run both ways: reads, prints and debugs of quantity above 1,
\* with and without embedded input, and loops with moves.
ExpandSources ==
  { <<44, 44, 44>>,                             \* ,,,
    <<43, 44, 44, 44, 33, 97, 98>>,             \* +,,,!ab
    <<43, 46, 46, 46>>,                         \* +...
    <<35, 35>>,                                 \* ##
    <<43, 43, 91, 62, 43, 60, 45, 93, 62>>,     \* ++[>+<-]>
    <<45, 45, 60, 60, 44, 46>> }                \* --<<,.

\* The place in the expanded tree of the first copy of instruction n.
RECURSIVE Base(_, _)
Base(heap, n) ==
  IF n = 1 THEN 1 ELSE Base(heap, n - 1) + heap[n - 1].quantity

\* The tree with every instruction of quantity q replaced by q instructions
\* of quantity 1 linked through next, the last of them linked to what the
\* instruction was linked to.
Expand(heap) ==
  LET total   == Base(heap, Len(heap) + 1) - 1
      Orig(k) == CHOOSE n \in 1..Len(heap) :
                    Base(heap, n) <= k /\ k < Base(heap, n) + heap[n].quantity
      Map(p)  == IF p = NULL THEN NULL ELSE Base(heap, p)
  IN  [ k \in 1..total |->
          LET n == Orig(k)
          IN  [ value    |-> heap[n].value,
                quantity |-> 1,
                next     |-> IF k + 1 < Base(heap, n) + heap[n].quantity
                             THEN k + 1
                             ELSE Map(heap[n].next),
                loop     |-> Map(heap[n].loop) ] ]

\* The first run is over: the caller records the handler calls it made (as
\* arg), the tape it left and its result (as ret), then makes a new
\* interpreter with the same configuration for the expanded tree.
Restart ==
  /\ pc = "idle" /\ runs = 1 /\ calls = << >>
  /\ calls' = << [name |-> "run", arg |-> trace, tape |-> tape, ret |-> result] >>
  /\ program' = [program EXCEPT !.instructions = Expand(@)]
  /\ tape' = cattle_tape_new
  /\ stack' = << >>
  /\ had_input' = FALSE
  /\ input' = NullStr
  /\ input_cursor' = NULL
  /\ end_of_input_reached' = FALSE
  /\ current' = NULL
  /\ i' = 0
  /\ temp' = 0
  /\ result' = [success |-> TRUE, error |-> NoError]
  /\ trace' = << >>
  /\ UNCHANGED << configuration, loaded, pc, runs, steps >>

\* What a handler did in a call: its return value, whether it set the
\* error, and what it fed.
Outcome(e) == [ret |-> e.ret, err |-> e.err, feeds |-> e.feeds]

\* The handlers behave in the second run as they did in the first: a call
\* that is of the same kind as the call of the same rank in the first run
\* has the same outcome.
Replays ==
  (calls # << >> /\ trace' # trace) =>
     LET k   == Len(trace')
         old == calls[1].arg
     IN  (k <= Len(old) /\ old[k].kind = trace'[k].kind) =>
            Outcome(trace'[k]) = Outcome(old[k])

\* The caller loads a program, configures the interpreter, runs the
\* program, then runs its expanded tree on a new interpreter.
ExpandNext ==
  \/ \E src \in ExpandSources : loaded.string = NullStr /\ cattle_program_load(src)
  \/ \E action \in EndOfInputActions : cattle_configuration_set_end_of_input_action(action)
  \/ \E enabled \in BOOLEAN : cattle_configuration_set_debug_is_enabled(enabled)
  \/ (runs = 0 \/ calls # << >>) /\ cattle_interpreter_run
  \/ Restart
  \/ RunLoopBegin
  \/ RunLoopEnd
  \/ RunMoveLeft
  \/ RunMoveRight
  \/ RunIncrease
  \/ RunDecrease
  \/ RunRead /\ Replays
  \/ RunPrint /\ Replays
  \/ RunDebug /\ Replays
  \/ RunNone
  \/ RunEnd

ExpandSpec == Init /\ [][ExpandNext]_vars

(* -------------------------- the tape alone ----------------------------- *)

\* The values the caller writes, the amounts it adds or subtracts and the
\* numbers of cells it moves by.
TapeValues == {-128, -1, 42, 127}
Amounts    == {100, 256}
StepCounts == {0, 2, 128, 300}

\* The calls of a tour with bookmarks, as test_tape_bookmarks makes them:
\* a bookmark pushed or popped, a move to the left within the chunk or to
\* the right through new chunks, a write.
InTour(name, arg) ==
  \/ name \in {"push_bookmark", "pop_bookmark"}
  \/ name = "move_left_by" /\ arg = 2
  \/ name = "move_right_by" /\ arg = 300
  \/ name = "set_current_value" /\ arg = 42

\* One call on the tape of a new interpreter: the call is recorded with the
\* tape it found, and the tape becomes the one it leaves. The caller makes
\* MaxCalls calls of any kind, or MaxMarks calls of a tour with bookmarks.
TapeCall(name, arg, t, ret) ==
  /\ Setup
  /\ Len(calls) >= MaxCalls =>
       /\ Len(calls) < MaxMarks
       /\ InTour(name, arg)
       /\ \A j \in 1..Len(calls) : InTour(calls[j].name, calls[j].arg)
  /\ calls' = Append(calls, [name |-> name, arg |-> arg, tape |-> tape, ret |-> ret])
  /\ tape' = t
  /\ UNCHANGED << configuration, program, loaded, stack, had_input, input,
                  input_cursor, end_of_input_reached, pc, current, i, temp,
                  result, trace, runs, steps >>

SetCurrentValue(value) ==
  TapeCall("set_current_value", value, cattle_tape_set_current_value(tape, value), TRUE)

IncreaseCurrentValue ==
  TapeCall("increase_current_value", 1, cattle_tape_increase_current_value(tape), TRUE)

IncreaseCurrentValueBy(value) ==
  TapeCall("increase_current_value_by", value,
           cattle_tape_increase_current_value_by(tape, value), TRUE)

DecreaseCurrentValue ==
  TapeCall("decrease_current_value", 1, cattle_tape_decrease_current_value(tape), TRUE)

DecreaseCurrentValueBy(value) ==
  TapeCall("decrease_current_value_by", value,
           cattle_tape_decrease_current_value_by(tape, value), TRUE)

MoveLeft == TapeCall("move_left", 1, cattle_tape_move_left(tape), TRUE)

MoveLeftBy(n) == TapeCall("move_left_by", n, cattle_tape_move_left_by(tape, n), TRUE)

MoveRight == TapeCall("move_right", 1, cattle_tape_move_right(tape), TRUE)

MoveRightBy(n) == TapeCall("move_right_by", n, cattle_tape_move_right_by(tape, n), TRUE)

PushBookmark == TapeCall("push_bookmark", 0, cattle_tape_push_bookmark(tape), TRUE)

PopBookmark ==
  LET r == cattle_tape_pop_bookmark(tape)
  IN  TapeCall("pop_bookmark", 0, r.tape, r.ret)

TapeNext ==
  \/ \E value \in TapeValues : SetCurrentValue(value)
  \/ IncreaseCurrentValue
  \/ \E value \in Amounts : IncreaseCurrentValueBy(value)
  \/ DecreaseCurrentValue
  \/ \E value \in Amounts : DecreaseCurrentValueBy(value)
  \/ MoveLeft
  \/ \E n \in StepCounts : MoveLeftBy(n)
  \/ MoveRight
  \/ \E n \in StepCounts : MoveRightBy(n)
  \/ PushBookmark
  \/ PopBookmark

TapeSpec == Init /\ [][TapeNext]_vars

(* ------------------------------ claims --------------------------------- *)

\* The program is the one cattle_program_load_from_string makes of src.
Loaded(src) ==
  program = cattle_program_load_from_string(cattle_program_new, src).program

Cell == cattle_tape_get_current_value(tape)

\* A handler call that misbehaved: it returned failure, or it set the error.
Failed(e) == ~ e.ret \/ e.err

\* A step of run() is taken on an instruction of this kind.
StepOn(value) ==
  /\ pc = "running"
  /\ current # NULL
  /\ Node(current).value = value
  /\ steps' # steps

\* A handler of this kind is called in the step.
Called(kind) ==
  /\ trace' # trace
  /\ trace' # << >>
  /\ trace'[Len(trace')].kind = kind

\* C1 (action part): a LoopBegin met on a non-zero cell pushes itself and
\* passes control to its loop, on a zero cell passes control to its next
\* without pushing; a LoopEnd pops the stack and passes control to the popped
\* LoopBegin; none of them touches the tape.
C1_Step ==
  /\ (StepOn(CATTLE_INSTRUCTION_LOOP_BEGIN) /\ Cell # 0) =>
        /\ stack' = <<current>> \o stack
        /\ current' = Node(current).loop
        /\ pc' = "running" /\ tape' = tape
  /\ (StepOn(CATTLE_INSTRUCTION_LOOP_BEGIN) /\ Cell = 0) =>
        /\ stack' = stack
        /\ current' = Node(current).next
        /\ pc' = "running" /\ tape' = tape
  /\ (StepOn(CATTLE_INSTRUCTION_LOOP_END) /\ stack # << >>) =>
        /\ current' = Head(stack)
        /\ stack' = Tail(stack)
        /\ Node(current').value = CATTLE_INSTRUCTION_LOOP_BEGIN
        /\ pc' = "running" /\ tape' = tape

\* C1 (count part): `+[.-]` prints the cell at each run of the body, so when
\* the run is over the body has run exactly as many times as the cell held
\* at the first test: the values printed are k, k-1, ..., 1.
C1_Count ==
  (Loaded(<<43, 91, 46, 45, 93>>) /\ pc = "idle" /\ runs > 0 /\ result.success) =>
     \A k \in 1..Len(trace) : trace[k].value = Len(trace) - k + 1

\* C1: loop control of run(): LoopBegin enters its body or skips to its next
\* according to the current cell, LoopEnd returns to the LoopBegin on the
\* stack, so a body runs k times when the cell is non-zero at k tests.
C1_LoopControl == [][C1_Step]_vars /\ []C1_Count

\* C1 witness: `+[.-]` has run from a cell holding 2: three runs of the body.
C1_Witness ==
  /\ Loaded(<<43, 91, 46, 45, 93>>) /\ pc = "idle" /\ runs > 0 /\ result.success
  /\ Len(trace) = 3
  /\ Cell = 0

\* C2: whichever handler misbehaves, in whichever of the three ways, it is
\* the last call of the run and the run returns failure with an I/O error:
\* the handler's error when it set one, the generic one otherwise.
C2_HandlerFailureIsIO ==
  \A k \in 1..Len(trace) :
    Failed(trace[k]) =>
      /\ k = Len(trace)
      /\ pc = "idle"
      /\ result.success = FALSE
      /\ result.error.code = "IO"
      /\ result.error = IF trace[k].err THEN HandlerError ELSE UnknownIO

\* C2 witness: a debug handler set the error and returned success.
C2_Witness ==
  /\ pc = "idle" /\ trace # << >>
  /\ trace[Len(trace)].kind = "debug"
  /\ trace[Len(trace)].ret /\ trace[Len(trace)].err
  /\ result.success = FALSE

\* C3: the step in which a handler call fails is the step in which run
\* returns, it makes that one call only, and it leaves the tape as it was.
C3_Step ==
  (trace' # trace /\ trace' # << >> /\ Failed(trace'[Len(trace')])) =>
     /\ Len(trace') = Len(trace) + 1
     /\ pc' = "idle"
     /\ tape' = tape

C3_FailureLeavesTape == [][C3_Step]_vars

\* C3 witness: the input handler of `+,.` failed; the cell still holds the
\* value the Increase gave it with STORE_EOF configured.
C3_Witness ==
  /\ Loaded(<<43, 44, 46>>) /\ pc = "idle" /\ Len(trace) = 1
  /\ trace[1].kind = "input" /\ Failed(trace[1])
  /\ configuration.end_of_input_action = "STORE_EOF"
  /\ Cell = 1

\* The calls an instruction makes to its handler are numbered 1, 2, ... up to
\* its quantity at most, each made only after the previous one succeeded; a
\* call that fails is the last one; a call that succeeds before the quantity
\* is reached is followed by the next one (or the next one is pending).
UnitsOf(kind, value) ==
  \A k \in 1..Len(trace) :
    trace[k].kind = kind =>
      LET e == trace[k]
          q == Node(e.node).quantity
      IN  /\ Node(e.node).value = value
          /\ e.unit >= 1 /\ e.unit <= q
          /\ e.unit > 1 =>
               /\ k > 1
               /\ trace[k - 1].kind = kind
               /\ trace[k - 1].node = e.node
               /\ trace[k - 1].unit = e.unit - 1
               /\ trace[k - 1].value = e.value
               /\ ~ Failed(trace[k - 1])
          /\ Failed(e) => k = Len(trace) /\ pc = "idle"
          /\ (~ Failed(e) /\ e.unit < q) =>
               IF k < Len(trace)
               THEN /\ trace[k + 1].kind = kind
                    /\ trace[k + 1].node = e.node
                    /\ trace[k + 1].unit = e.unit + 1
               ELSE pc = "running" /\ current = e.node /\ i = e.unit
          /\ (~ Failed(e) /\ e.unit = q /\ k = Len(trace) /\ pc = "running") =>
               i = 0

\* C4 (action part): every step on a Print calls the output handler once,
\* with the value of the current cell.
C4_Step ==
  StepOn(CATTLE_INSTRUCTION_PRINT) =>
     /\ Len(trace') = Len(trace) + 1
     /\ trace'[Len(trace')].kind = "output"
     /\ trace'[Len(trace')].node = current
     /\ trace'[Len(trace')].unit = i + 1
     /\ trace'[Len(trace')].value = Cell

\* C4: a Print of quantity q calls the output handler with the current cell,
\* q times in a row when every call succeeds, j times when the j-th fails.
C4_PrintCalls ==
  [][C4_Step]_vars /\ []UnitsOf("output", CATTLE_INSTRUCTION_PRINT)

\* C4 witness: the second of the three calls of `+...` failed and the run
\* is over: two calls were made.
C4_Witness ==
  /\ Loaded(<<43, 46, 46, 46>>) /\ pc = "idle"
  /\ Len(trace) = 2
  /\ ~ Failed(trace[1]) /\ Failed(trace[2])
  /\ trace[2].unit = 2 /\ trace[2].value = 1

\* C5 (action part): the debug handler is called only with debugging
\* enabled; with debugging disabled a Debug just passes control to its next;
\* with debugging enabled every step on a Debug calls the handler once.
C5_Step ==
  /\ Called("debug") => configuration.debug_is_enabled
  /\ (StepOn(CATTLE_INSTRUCTION_DEBUG) /\ ~ configuration.debug_is_enabled) =>
        /\ trace' = trace /\ tape' = tape /\ stack' = stack
        /\ input' = input /\ input_cursor' = input_cursor
        /\ end_of_input_reached' = end_of_input_reached
        /\ pc' = "running"
        /\ current' = Node(current).next
  /\ (StepOn(CATTLE_INSTRUCTION_DEBUG) /\ configuration.debug_is_enabled) =>
        /\ Len(trace') = Len(trace) + 1
        /\ trace'[Len(trace')].kind = "debug"
        /\ trace'[Len(trace')].node = current
        /\ trace'[Len(trace')].unit = i + 1

\* C5: a Debug calls the debug handler only when debugging is enabled, and
\* then as many times as its quantity when the calls succeed.
C5_DebugRespectsConfiguration ==
  [][C5_Step]_vars /\ []UnitsOf("debug", CATTLE_INSTRUCTION_DEBUG)

\* C5 witness: `##` has run to its end with debugging disabled and no
\* handler was called.
C5_Witness ==
  /\ Loaded(<<35, 35>>) /\ pc = "idle" /\ runs > 0
  /\ ~ configuration.debug_is_enabled
  /\ result.success /\ trace = << >>

\* C6: in a run of a program that came with embedded input, no step calls
\* the input handler.
C6_Step == had_input => ~ Called("input")

C6_NoInputHandlerWithEmbeddedInput == [][C6_Step]_vars

\* C6 witness: `,>,!a` has run to its end, its second Read after the only
\* embedded byte was consumed, and no handler was called.
C6_Witness ==
  /\ Loaded(<<44, 62, 44, 33, 97>>) /\ pc = "idle" /\ runs > 0
  /\ result.success /\ trace = << >>
  /\ tape.offset = 1

\* What the end-of-input action makes of a cell holding v.
AfterEndOfInput(v) ==
  IF configuration.end_of_input_action = "STORE_ZERO" THEN 0
  ELSE IF configuration.end_of_input_action = "STORE_EOF" THEN EOF
  ELSE v

\* C7: in a run with embedded input, the last fetch of a Read made when all
\* the embedded bytes have been consumed applies the end-of-input action to
\* the current cell.
C7_Step ==
  ( /\ StepOn(CATTLE_INSTRUCTION_READ)
    /\ had_input
    /\ input = program.input
    /\ input_cursor = Len(input) + 1
    /\ i + 1 = Node(current).quantity ) =>
     /\ pc' = "running"
     /\ cattle_tape_get_current_value(tape') = AfterEndOfInput(Cell)

C7_EndOfEmbeddedInput == [][C7_Step]_vars

\* The run of `,` called no handler, or called the input handler once, and
\* the handler returned success and did not feed.
NoFeed(tr) ==
  \/ tr = << >>
  \/ /\ Len(tr) = 1
     /\ tr[1].kind = "input"
     /\ ~ Failed(tr[1])
     /\ tr[1].feeds = << >>

\* C8 (action part): the Read of `,`, with a handler that succeeds without
\* feeding, applies the end-of-input action to the cell and goes on.
C8_Step ==
  (StepOn(CATTLE_INSTRUCTION_READ) /\ Loaded(<<44>>) /\ NoFeed(trace')) =>
     /\ pc' = "running"
     /\ current' = Node(current).next
     /\ cattle_tape_get_current_value(tape') = AfterEndOfInput(Cell)

\* C8 (result part): such a run of `,` succeeds with no error.
C8_Done ==
  (Loaded(<<44>>) /\ pc = "idle" /\ runs > 0 /\ NoFeed(trace)) =>
     result = [success |-> TRUE, error |-> NoError]

\* C8: with no embedded input and an input handler that succeeds without
\* feeding, `,` succeeds and the cell gets 0 with STORE_ZERO, -1 with
\* STORE_EOF, and keeps its value with DO_NOTHING.
C8_NoFeedIsEndOfInput == [][C8_Step]_vars /\ []C8_Done

\* C8 witness: `,` has run with DO_NOTHING from a cell holding 2, the input
\* handler was called and did not feed; the cell still holds 2.
C8_Witness ==
  /\ Loaded(<<44>>) /\ pc = "idle" /\ runs > 0
  /\ Len(trace) = 1 /\ NoFeed(trace)
  /\ configuration.end_of_input_action = "DO_NOTHING"
  /\ Cell = 2
  /\ result.success

\* The buffer a handler call fed, when it fed one.
FedBuffer(e) == e.feeds[1]
FedOne(e) == e.feeds # << >> /\ FedBuffer(e) # NullStr

\* C9 (feed by an output or debug handler, or by the caller): afterwards the
\* input is the buffer, the cursor is at its first byte and the end-of-input
\* flag is clear.
C9_FeedStep ==
  /\ ( /\ Called("output") \/ Called("debug")
       /\ pc' = "running"
       /\ FedOne(trace'[Len(trace')]) ) =>
        /\ input' = FedBuffer(trace'[Len(trace')])
        /\ input_cursor' = 1
        /\ end_of_input_reached' = FALSE
  /\ \A arg \in FeedArgs \ {NullStr} :
        FeedIdle(arg) =>
           /\ input' = arg
           /\ input_cursor' = 1
           /\ end_of_input_reached' = FALSE

\* C9 (feed by the input handler): the Read that called the handler gets
\* the first byte of the buffer, or detects end of input when it is empty.
C9_ReadStep ==
  ( /\ Called("input")
    /\ ~ Failed(trace'[Len(trace')])
    /\ FedOne(trace'[Len(trace')]) ) =>
     LET arg == FedBuffer(trace'[Len(trace')])
     IN  IF arg = << >>
         THEN temp' = UEOF /\ end_of_input_reached'
         ELSE arg[1] <= 127 =>
                /\ temp' = arg[1]
                /\ input' = arg
                /\ input_cursor' = 2

\* C9 (the next Read): a Read that finds the buffer just fed, unread, gets
\* its first byte.
C9_NextReadStep ==
  ( /\ StepOn(CATTLE_INSTRUCTION_READ)
    /\ trace # << >>
    /\ FedOne(trace[Len(trace)])
    /\ input = FedBuffer(trace[Len(trace)])
    /\ input # << >>
    /\ input_cursor = 1
    /\ input[1] <= 127 ) =>
     /\ temp' = input[1]
     /\ input_cursor' = 2

\* C9: feed(buffer) replaces the input, puts the cursor at its first byte
\* and clears the end-of-input flag, so the next Read gets the first byte of
\* the buffer; an empty buffer makes the Read detect end of input.
C9_FeedResetsInput == [][C9_FeedStep /\ C9_ReadStep /\ C9_NextReadStep]_vars

\* C10 (when the handler is called): only without embedded input, by a Read
\* that finds no unread byte.
C10_CallStep ==
  Called("input") =>
     /\ StepOn(CATTLE_INSTRUCTION_READ)
     /\ ~ had_input
     /\ input = NullStr \/ input_cursor = Len(input) + 1

\* C10 (delivery): without embedded input, a fetch that finds an unread fed
\* byte takes that byte and moves the cursor by one, calling no handler.
C10_DeliverStep ==
  ( /\ StepOn(CATTLE_INSTRUCTION_READ)
    /\ ~ had_input
    /\ input # NullStr
    /\ input_cursor <= Len(input) ) =>
     /\ trace' = trace
     /\ temp' = input[input_cursor]
     /\ input' = input
     /\ input_cursor' = input_cursor + 1

\* C10 (order): `,.,#.` with debugging enabled and an input handler feeding
\* "wh" calls input, output with 'w', debug, output with 'h', in this order.
C10_Order ==
  ( /\ Loaded(<<44, 46, 44, 35, 46>>)
    /\ configuration.debug_is_enabled
    /\ pc = "idle" /\ runs > 0 /\ result.success
    /\ trace # << >>
    /\ trace[1].kind = "input" /\ trace[1].feeds = << <<119, 104>> >>
    /\ \A k \in 2..Len(trace) : trace[k].feeds = << >> ) =>
     /\ [k \in 1..Len(trace) |-> trace[k].kind] = <<"input", "output", "debug", "output">>
     /\ trace[2].value = 119
     /\ trace[4].value = 104

\* C10: without embedded input the input handler is called only when a Read
\* finds no unread fed byte, the fed bytes go to the successive fetches in
\* order, one each, and the handler calls follow the order of the
\* instructions executed.
C10_InputOnDemand == [][C10_CallStep /\ C10_DeliverStep]_vars /\ []C10_Order

\* C11 (one fetch): a unit of a Read that finds an unread input byte takes
\* that byte and moves the cursor by one.
C11_FetchStep ==
  ( /\ StepOn(CATTLE_INSTRUCTION_READ)
    /\ input # NullStr
    /\ input_cursor # NULL /\ input_cursor <= Len(input) ) =>
     /\ temp' = input[input_cursor]
     /\ input' = input
     /\ input_cursor' = input_cursor + 1

\* C11 (one write): the units before the last leave the tape alone and stay
\* on the instruction; the last one stores what it fetched.
C11_StoreStep ==
  (StepOn(CATTLE_INSTRUCTION_READ) /\ pc' = "running") =>
     IF i + 1 < Node(current).quantity
     THEN tape' = tape /\ current' = current /\ i' = i + 1
     ELSE /\ current' = Node(current).next
          /\ temp' # UEOF => cattle_tape_get_current_value(tape') = temp'

\* C11 (q bytes available): the last unit of a Read of quantity q that is
\* the first instruction of a program with at least q bytes of embedded
\* input stores the q-th byte and leaves the cursor q bytes further.
C11_WholeStep ==
  ( /\ StepOn(CATTLE_INSTRUCTION_READ)
    /\ current = 1
    /\ had_input
    /\ i + 1 = Node(current).quantity
    /\ Len(program.input) >= Node(current).quantity ) =>
     /\ pc' = "running"
     /\ input_cursor' = Node(current).quantity + 1
     /\ cattle_tape_get_current_value(tape') = program.input[Node(current).quantity]

\* C11: a Read of quantity q makes q fetches, each taking one unread byte
\* when there is one, and writes once, what the last fetch got: with q
\* unread bytes the cell gets the q-th and the cursor moves by q.
C11_ReadQuantity == [][C11_FetchStep /\ C11_StoreStep /\ C11_WholeStep]_vars

\* C12 (the start): a run that follows another starts with an empty stack,
\* at the root, with the cursor on the first byte of the embedded input, and
\* on the tape as it is.
C12_StartStep ==
  (pc = "idle" /\ pc' = "running" /\ runs >= 1) =>
     /\ stack' = << >>
     /\ current' = 1
     /\ input' = program.input
     /\ input_cursor' = IF program.input # NullStr THEN 1 ELSE NULL
     /\ tape' = tape

\* C12 (the end): a run that fails leaves the tape as its instructions made
\* it, and nothing touches the tape between two runs.
C12_EndStep ==
  /\ (pc = "running" /\ pc' = "idle" /\ ~ result'.success) => tape' = tape
  /\ (pc = "idle" /\ pc' = "idle" /\ runs >= 1) => tape' = tape

\* C12: a run after an earlier run starts with an empty stack and the
\* cursor on the first byte of the embedded input; the tape is the one the
\* earlier run left.
C12_RunStartsFresh == [][C12_StartStep /\ C12_EndStep]_vars

\* C12 witness: the second run of `,.,.!a` has just started, after a first
\* run that read 'a' into the cell and failed in its output handler.
C12_Witness ==
  /\ Loaded(<<44, 46, 44, 46, 33, 97>>)
  /\ pc = "running" /\ runs = 2 /\ steps = 0
  /\ ~ result.success
  /\ Cell = 97
  /\ stack = << >> /\ input = <<97>> /\ input_cursor = 1

\* C13 (LoopEnd on an empty stack): run fails at once with
\* UnbalancedBrackets.
C13_EndStep ==
  (StepOn(CATTLE_INSTRUCTION_LOOP_END) /\ stack = << >>) =>
     /\ pc' = "idle"
     /\ result' = [success |-> FALSE, error |-> Unbalanced]
     /\ tape' = tape

\* C13 (body without LoopEnd): when the walk ends with a LoopBegin still on
\* the stack, run fails with UnbalancedBrackets.
C13_LeftoverStep ==
  (pc = "running" /\ current = NULL /\ stack # << >>) =>
     /\ pc' = "idle"
     /\ result' = [success |-> FALSE, error |-> Unbalanced]

\* C13 (the two trees): the runs of the hand-built `[+++` on a non-zero cell
\* and of `]+++` have failed with UnbalancedBrackets when they are over.
C13_Done ==
  /\ ( /\ program.instructions = UnbalancedEnd
       /\ pc = "idle" /\ runs > 0 ) =>
        result = [success |-> FALSE, error |-> Unbalanced]
  /\ ( /\ program.instructions = UnbalancedBegin
       /\ pc = "idle" /\ runs > 0
       /\ Cell # 0 ) =>
        result = [success |-> FALSE, error |-> Unbalanced]

\* C13: run on a hand-built unbalanced tree fails with UnbalancedBrackets,
\* at once for a LoopEnd met with an empty stack, and at the end of the walk
\* for a LoopBegin entered whose body has no LoopEnd.
C13_UnbalancedTree == [][C13_EndStep /\ C13_LeftoverStep]_vars /\ []C13_Done

\* C13 witness: the run of `[+++` from a cell holding 2 is over; the body
\* has been executed once and the run has failed.
C13_Witness ==
  /\ program.instructions = UnbalancedBegin
  /\ pc = "idle" /\ runs > 0
  /\ Cell = 5
  /\ result = [success |-> FALSE, error |-> Unbalanced]

\* C13 witness, the other tree: the run of `]+++` has failed on its first
\* instruction, the cell still holding 2.
C13_WitnessEnd ==
  /\ program.instructions = UnbalancedEnd
  /\ pc = "idle" /\ runs > 0
  /\ Cell = 2
  /\ result = [success |-> FALSE, error |-> Unbalanced]

(* ------------------------ claims on the loader ------------------------- *)

\* cattle_program_load_from_string has been called.
LoadCalled == loaded.string # NullStr

\* The position of the first `!` of a string, or one past its end.
BangAt(str) ==
  IF \E k \in 1..Len(str) : str[k] = 33
  THEN CHOOSE k \in 1..Len(str) : str[k] = 33 /\ \A j \in 1..(k - 1) : str[j] # 33
  ELSE Len(str) + 1

\* The bytes before the first `!`, and those after it.
CodePart(str) == SubSeq(str, 1, BangAt(str) - 1)
InputPart(str) == SubSeq(str, BangAt(str) + 1, Len(str))

\* The count of `[` minus the count of `]` among the first k bytes.
Depth(str, k) ==
  Cardinality({j \in 1..k : str[j] = 91}) - Cardinality({j \in 1..k : str[j] = 93})

\* The count never goes negative and is zero at the end of the code.
Balanced(str) ==
  LET code == CodePart(str)
  IN  /\ \A k \in 0..Len(code) : Depth(code, k) >= 0
      /\ Depth(code, Len(code)) = 0

\* C14: load fails if and only if the brackets before the first `!` are not
\* balanced (the count goes negative, or is not zero at the end).
C14_LoadFailsIffUnbalanced ==
  LoadCalled => (loaded.success <=> Balanced(loaded.string))

\* C15: a load that fails on brackets reports UnbalancedBrackets, for a `]`
\* never opened as for a `[` never closed.
C15_OneErrorKind ==
  (LoadCalled /\ ~ Balanced(loaded.string) /\ g_utf8_validate(loaded.string)) =>
     /\ ~ loaded.success
     /\ loaded.error = "UNBALANCED_BRACKETS"

\* C16 (one load): a load that fails leaves the instructions and the input
\* of the program as they were.
C16_Step ==
  (loaded' # loaded /\ ~ loaded'.success) => program' = program

\* C16 (new program): after a failed first load the program is the new one,
\* a single Nop with no next and no loop, and no input.
C16_NewStep ==
  (~ LoadCalled /\ loaded' # loaded /\ ~ loaded'.success) =>
     /\ program'.instructions =
           << [value |-> CATTLE_INSTRUCTION_NONE, quantity |-> 1, next |-> NULL, loop |-> NULL] >>
     /\ program'.input = NullStr

\* C16: a load that fails leaves the program exactly as it was before.
C16_FailedLoadKeepsProgram == [][C16_Step /\ C16_NewStep]_vars

\* C16 witness: `[` has failed to load into a program holding `+[.-]`,
\* which is still there.
C16_Witness ==
  /\ loaded.string = <<91>> /\ ~ loaded.success
  /\ Loaded(<<43, 91, 46, 45, 93>>)

IsOpcode(c) ==
  c \in SimpleInstructions \cup {CATTLE_INSTRUCTION_LOOP_BEGIN, CATTLE_INSTRUCTION_LOOP_END}

\* The opcode bytes of a string, in order.
OpcodesOf(str) == SelectSeq(str, IsOpcode)

Repeat(c, q) == [k \in 1..q |-> c]

\* The walk of a tree in execution order: every instruction written as many
\* times as its quantity, a LoopBegin followed by its body, Nop left out.
RECURSIVE Spell(_, _)
Spell(heap, n) ==
  IF n = NULL THEN << >>
  ELSE LET node == heap[n]
       IN  IF node.value = CATTLE_INSTRUCTION_NONE
           THEN Spell(heap, node.next)
           ELSE IF node.value = CATTLE_INSTRUCTION_LOOP_BEGIN
           THEN Repeat(node.value, node.quantity) \o Spell(heap, node.loop)
                   \o Spell(heap, node.next)
           ELSE Repeat(node.value, node.quantity) \o Spell(heap, node.next)

\* The same walk, one <<value, quantity>> for each instruction.
RECURSIVE Flat(_, _)
Flat(heap, n) ==
  IF n = NULL THEN << >>
  ELSE LET node == heap[n]
       IN  IF node.value = CATTLE_INSTRUCTION_NONE
           THEN Flat(heap, node.next)
           ELSE IF node.value = CATTLE_INSTRUCTION_LOOP_BEGIN
           THEN << <<node.value, node.quantity>> >> \o Flat(heap, node.loop)
                   \o Flat(heap, node.next)
           ELSE << <<node.value, node.quantity>> >> \o Flat(heap, node.next)

\* How many bytes equal to str[k] stand next to each other from k on.
RunLength(str, k) ==
  CHOOSE n \in 1..(Len(str) - k + 1) :
     /\ \A j \in k..(k + n - 1) : str[j] = str[k]
     /\ k + n > Len(str) \/ str[k + n] # str[k]

\* The instructions a string asks for: one for each bracket, one for each
\* run of adjacent identical other opcodes.
RECURSIVE RunsFrom(_, _)
RunsFrom(str, k) ==
  IF k > Len(str) THEN << >>
  ELSE IF ~ IsOpcode(str[k]) THEN RunsFrom(str, k + 1)
  ELSE IF str[k] \in SimpleInstructions
  THEN << <<str[k], RunLength(str, k)>> >> \o RunsFrom(str, k + RunLength(str, k))
  ELSE << <<str[k], 1>> >> \o RunsFrom(str, k + 1)

\* C17: the walk of a loaded tree spells the opcode bytes that stand before
\* the first `!`; adjacent identical non-bracket opcodes are one instruction
\* with their number as quantity, every bracket is an instruction of its own.
C17_TreeSpellsSource ==
  (LoadCalled /\ loaded.success) =>
     /\ Spell(program.instructions, 1) = OpcodesOf(CodePart(loaded.string))
     /\ Flat(program.instructions, 1) = RunsFrom(CodePart(loaded.string), 1)

\* C17 witness: `+++>-<[-]` is loaded, its first instruction is an Increase
\* of quantity 3.
C17_Witness ==
  /\ loaded.string = <<43, 43, 43, 62, 45, 60, 91, 45, 93>> /\ loaded.success
  /\ program.instructions[1].value = CATTLE_INSTRUCTION_INCREASE
  /\ program.instructions[1].quantity = 3
  /\ Len(Flat(program.instructions, 1)) = 7

\* C18: a string with no opcode before its first `!` loads, and its tree is
\* a single Nop with no next and no loop.
C18_EmptyProgram ==
  (LoadCalled /\ OpcodesOf(CodePart(loaded.string)) = << >>) =>
     /\ loaded.success
     /\ program.instructions =
           << [value |-> CATTLE_INSTRUCTION_NONE, quantity |-> 1, next |-> NULL, loop |-> NULL] >>

\* C19: in a loaded tree no instruction is followed by a Nop: `+++++` is a
\* single Increase of quantity 5 with no next, the outer LoopBegin of `[[]]`
\* has no next.
C19_NoTrailingNop ==
  (LoadCalled /\ loaded.success) =>
     /\ \A n \in DOMAIN program.instructions :
           program.instructions[n].next # NULL =>
              program.instructions[program.instructions[n].next].value # CATTLE_INSTRUCTION_NONE
     /\ loaded.string = <<43, 43, 43, 43, 43>> =>
           program.instructions[1] =
              [value |-> CATTLE_INSTRUCTION_INCREASE, quantity |-> 5, next |-> NULL, loop |-> NULL]
     /\ loaded.string = <<91, 91, 93, 93>> => program.instructions[1].next = NULL

\* The instructions of a chain, from n on through next.
RECURSIVE Chain(_, _)
Chain(heap, n) ==
  IF n = NULL THEN << >> ELSE <<n>> \o Chain(heap, heap[n].next)

LoopEndsIn(heap, chain) ==
  {k \in 1..Len(chain) : heap[chain[k]].value = CATTLE_INSTRUCTION_LOOP_END}

\* C20: in a loaded tree the body of every LoopBegin has one LoopEnd, its
\* last instruction; the root chain has none; only a LoopBegin has a loop;
\* the loop of `[]` is its LoopEnd.
C20_LoopShape ==
  (LoadCalled /\ loaded.success) =>
     LET heap == program.instructions
     IN  /\ \A n \in DOMAIN heap :
               heap[n].value = CATTLE_INSTRUCTION_LOOP_BEGIN =>
                  /\ heap[n].loop # NULL
                  /\ LET body == Chain(heap, heap[n].loop)
                     IN  LoopEndsIn(heap, body) = {Len(body)}
         /\ LoopEndsIn(heap, Chain(heap, 1)) = {}
         /\ \A n \in DOMAIN heap :
               heap[n].loop # NULL => heap[n].value = CATTLE_INSTRUCTION_LOOP_BEGIN
         /\ loaded.string = <<91, 93>> =>
               heap[heap[1].loop].value = CATTLE_INSTRUCTION_LOOP_END

\* C20 witness: `[+[-]]+` is loaded; the body of the outer loop is an
\* Increase, the inner LoopBegin and the LoopEnd.
C20_Witness ==
  /\ loaded.string = <<91, 43, 91, 45, 93, 93, 43>> /\ loaded.success
  /\ LET heap == program.instructions
         body == Chain(heap, heap[1].loop)
     IN  /\ Len(body) = 3
         /\ heap[body[2]].value = CATTLE_INSTRUCTION_LOOP_BEGIN
         /\ heap[body[3]].value = CATTLE_INSTRUCTION_LOOP_END
         /\ heap[body[3]].next = NULL

\* The bytes of the embedded input of a program: none when it has no input.
EmbeddedInput(prog) == IF prog.input = NullStr THEN << >> ELSE prog.input

\* C21: after a successful load the embedded input is made of the bytes
\* after the first `!`, all of them and in order; it is empty when there is
\* no `!` or nothing after it.
C21_InputIsRest ==
  (LoadCalled /\ loaded.success) =>
     /\ EmbeddedInput(program) = InputPart(loaded.string)
     /\ program.input = NullStr <=> BangAt(loaded.string) >= Len(loaded.string)

\* C21 witness: `+x++![` is loaded, the input is the `[` that follows the
\* `!`.
C21_Witness ==
  /\ loaded.string = <<43, 120, 43, 43, 33, 91>> /\ loaded.success
  /\ program.input = <<91>>

\* C22 (same outcome): the program a successful load leaves is the one the
\* same load leaves in a new program.
C22_Same ==
  (LoadCalled /\ loaded.success) =>
     program = cattle_program_load_from_string(cattle_program_new, loaded.string).program

\* C22 (input replaced): loading a string without `!` into a program that
\* has embedded input leaves it without embedded input.
C22_Step ==
  ( /\ program.input # NullStr
    /\ loaded' # loaded /\ loaded'.success
    /\ BangAt(loaded'.string) > Len(loaded'.string) ) =>
     program'.input = NullStr

\* C22: what a load leaves depends on the string alone, not on what the
\* program held before.
C22_LoadDependsOnBuffer == [][C22_Step]_vars /\ []C22_Same

\* C22 witness: `+[.-]` is loaded in a program that had embedded input,
\* which is gone.
C22_Witness ==
  /\ loaded.string = <<43, 91, 46, 45, 93>> /\ loaded.success
  /\ program.input = NullStr
  /\ Len(program.instructions) = 6

\* C23: every string whose brackets before the first `!` are balanced
\* loads, whatever its other bytes, and a load that fails reports
\* UnbalancedBrackets.
C23_OnlyBracketsFail ==
  LoadCalled =>
     /\ Balanced(loaded.string) => loaded.success
     /\ ~ loaded.success => loaded.error = "UNBALANCED_BRACKETS"

\* A run of `,` in which the input handler was called once, succeeded and
\* fed arg.
FedRun(arg) ==
  /\ Loaded(<<44>>) /\ pc = "idle" /\ runs > 0
  /\ Len(trace) = 1
  /\ trace[1].kind = "input" /\ ~ Failed(trace[1])
  /\ trace[1].feeds = << arg >>

\* C24: run does not fail on the value of an input byte: `,` succeeds when
\* the handler feeds a two-byte UTF-8 character or a byte that is not UTF-8,
\* and no run ends with InputOutOfRange or with an encoding error.
C24_AnyInputByte ==
  /\ (FedRun(<<195, 169>>) \/ FedRun(<<200>>)) =>
        result = [success |-> TRUE, error |-> NoError]
  /\ result.error.code \notin {"INPUT_OUT_OF_RANGE", "BAD_UTF8"}


(* --------------------------- tape claims ------------------------------- *)

\* The tape the j-th recorded call found, and the tape it left.
Before(j) == calls[j].tape
After(j) == IF j = Len(calls) THEN tape ELSE calls[j + 1].tape

\* The value read on the tape the j-th recorded call left.
ValueAfter(j) == cattle_tape_get_current_value(After(j))

\* n as a signed 8-bit value.
Signed8(n) == LET m == n % 256 IN IF m > 127 THEN m - 256 ELSE m

\* C25: a write of v in -128..127 followed by increase_by(k) leaves
\* (v + k) mod 256 read as a signed 8-bit value in the cell, and followed by
\* decrease_by(k) it leaves (v - k) mod 256 read likewise.
C25_WrapByte ==
  \A j \in 1..(Len(calls) - 1) :
    (calls[j].name = "set_current_value" /\ calls[j].arg \in -128..127) =>
      /\ calls[j + 1].name = "increase_current_value_by" =>
           ValueAfter(j + 1) = Signed8(calls[j].arg + calls[j + 1].arg)
      /\ calls[j + 1].name = "decrease_current_value_by" =>
           ValueAfter(j + 1) = Signed8(calls[j].arg - calls[j + 1].arg)

C27_ReadBack ==
  \A j \in 1..Len(calls) :
    (calls[j].name = "set_current_value" /\ calls[j].arg \in -128..127) =>
      ValueAfter(j) = calls[j].arg


\* The position of the cursor, of the lowest and of the highest cell
\* visited, as integers: cell 0 is the first cell of the first chunk.
Index(t) == t.current * CHUNK_SIZE + t.offset
Lowest(t) == t.head * CHUNK_SIZE + t.lower_limit
Highest(t) == t.last * CHUNK_SIZE + t.upper_limit

\* The value of the cell at an integer position, 0 where no chunk exists.
CellAt(t, k) ==
  IF (k \div CHUNK_SIZE) \in DOMAIN t.chunks
  THEN t.chunks[k \div CHUNK_SIZE][k % CHUNK_SIZE]
  ELSE 0

\* The integer positions two tapes have a chunk for.
Cells(a, b) ==
  { c * CHUNK_SIZE + k : c \in DOMAIN a.chunks \cup DOMAIN b.chunks,
                         k \in 0..(CHUNK_SIZE - 1) }

SameValues(a, b) == \A k \in Cells(a, b) : CellAt(a, k) = CellAt(b, k)

(* The logical model of a tape: an integer cursor, a map from index to     *)
(* value over the indexes visited, the lowest and the highest index        *)
(* visited, and a stack of bookmarked indexes.                              *)
Model0 ==
  [cursor |-> 0, cells |-> [k \in {0} |-> 0], lowest |-> 0, highest |-> 0,
   marks |-> << >>]

Visit(m, c) ==
  LET lo == IF c < m.lowest THEN c ELSE m.lowest
      hi == IF c > m.highest THEN c ELSE m.highest
  IN  [m EXCEPT !.cursor = c, !.lowest = lo, !.highest = hi,
                !.cells = [k \in lo..hi |->
                             IF k \in DOMAIN m.cells THEN m.cells[k] ELSE 0]]

ModelStep(m, call) ==
  CASE call.name = "set_current_value" ->
         [m EXCEPT !.cells[m.cursor] = call.arg]
    [] call.name \in {"increase_current_value", "increase_current_value_by"} ->
         [m EXCEPT !.cells[m.cursor] = Signed8(@ + call.arg)]
    [] call.name \in {"decrease_current_value", "decrease_current_value_by"} ->
         [m EXCEPT !.cells[m.cursor] = Signed8(@ - call.arg)]
    [] call.name \in {"move_left", "move_left_by"} -> Visit(m, m.cursor - call.arg)
    [] call.name \in {"move_right", "move_right_by"} -> Visit(m, m.cursor + call.arg)
    [] call.name = "push_bookmark" ->
         [m EXCEPT !.marks = << m.cursor >> \o @]
    [] call.name = "pop_bookmark" ->
         IF m.marks = << >> THEN m
         ELSE [m EXCEPT !.cursor = m.marks[1], !.marks = Tail(@)]

\* The logical model after the first k recorded calls.
RECURSIVE ModelAfter(_)
ModelAfter(k) ==
  IF k = 0 THEN Model0 ELSE ModelStep(ModelAfter(k - 1), calls[k])

MovesWritesBookmarks ==
  {"set_current_value", "move_left", "move_left_by", "move_right",
   "move_right_by", "push_bookmark", "pop_bookmark"}

OnlyNames(names) == \A j \in 1..Len(calls) : calls[j].name \in names

\* The tape answers as the logical model does.
Agrees(m) ==
  /\ cattle_tape_get_current_value(tape) = m.cells[m.cursor]
  /\ cattle_tape_is_at_beginning(tape) <=> m.cursor = m.lowest
  /\ cattle_tape_is_at_end(tape) <=> m.cursor = m.highest

\* C28: after any sequence of moves, writes and bookmark calls the value
\* read, is_at_beginning and is_at_end are those of the logical model; on a
\* new tape both are true and the value is 0; after moves to the right only
\* the tape is at its end, after moves to the left only at its beginning.
C28_LogicalModel ==
  /\ OnlyNames(MovesWritesBookmarks) => Agrees(ModelAfter(Len(calls)))
  /\ calls = << >> =>
       /\ cattle_tape_get_current_value(tape) = 0
       /\ cattle_tape_is_at_beginning(tape) /\ cattle_tape_is_at_end(tape)
  /\ OnlyNames({"move_right", "move_right_by"}) => cattle_tape_is_at_end(tape)
  /\ OnlyNames({"move_left", "move_left_by"}) => cattle_tape_is_at_beginning(tape)

\* n calls of cattle_tape_move_right, and of cattle_tape_move_left, one
\* after the other: the first half of the calls, then the other half. The
\* test on `half` has TLC evaluate it before the second half starts, which
\* keeps the evaluation shallow; it is always true.
RECURSIVE RightTimes(_, _)
RightTimes(t, n) ==
  IF n = 0 THEN t
  ELSE IF n = 1 THEN cattle_tape_move_right(t)
  ELSE LET half == RightTimes(t, n \div 2)
       IN  IF half.offset >= 0 THEN RightTimes(half, n - (n \div 2)) ELSE t

RECURSIVE LeftTimes(_, _)
LeftTimes(t, n) ==
  IF n = 0 THEN t
  ELSE IF n = 1 THEN cattle_tape_move_left(t)
  ELSE LET half == LeftTimes(t, n \div 2)
       IN  IF half.offset >= 0 THEN LeftTimes(half, n - (n \div 2)) ELSE t

\* Two tapes are on the same cell, with the same bounds and the same values.
SameCellAndBounds(a, b) ==
  /\ Index(a) = Index(b)
  /\ Lowest(a) = Lowest(b)
  /\ Highest(a) = Highest(b)
  /\ SameValues(a, b)

\* C29: move_right_by(n) leaves the tape on the cell and with the visited
\* bounds that n calls of move_right leave, and move_left_by(n) those that
\* n calls of move_left leave, chunk boundaries crossed or not.
C29_ByIsRepeated ==
  \A j \in 1..Len(calls) :
    /\ calls[j].name = "move_right_by" =>
         SameCellAndBounds(After(j), RightTimes(Before(j), calls[j].arg))
    /\ calls[j].name = "move_left_by" =>
         SameCellAndBounds(After(j), LeftTimes(Before(j), calls[j].arg))

\* C29 witness: on a tape whose cursor was first moved 2 cells to the left,
\* into a new chunk, move_right_by(300) has crossed three chunk boundaries,
\* allocated two chunks, and the tape is on cell 298, the highest visited.
C29_Witness ==
  /\ Len(calls) = 2
  /\ calls[1].name = "move_left_by" /\ calls[1].arg = 2
  /\ calls[2].name = "move_right_by" /\ calls[2].arg = 300
  /\ Index(tape) = 298 /\ tape.last = 2 /\ tape.head = -1
  /\ Lowest(tape) = -2 /\ Highest(tape) = 298

\* The j-th call and the next one move by the same number of cells, the
\* first with a, the second with b.
BackAndForth(j, a, b) ==
  /\ calls[j].name = a /\ calls[j + 1].name = b
  /\ calls[j].arg = calls[j + 1].arg

\* C30: move_right_by(n) followed by move_left_by(n), or move_left_by(n)
\* followed by move_right_by(n), leaves the cursor on the cell it was on,
\* the value read and all cell values unchanged; the visited bounds have
\* not shrunk.
C30_ThereAndBack ==
  \A j \in 1..(Len(calls) - 1) :
    (BackAndForth(j, "move_right_by", "move_left_by")
     \/ BackAndForth(j, "move_left_by", "move_right_by")) =>
       /\ Index(After(j + 1)) = Index(Before(j))
       /\ ValueAfter(j + 1) = cattle_tape_get_current_value(Before(j))
       /\ SameValues(After(j + 1), Before(j))
       /\ Lowest(After(j + 1)) <= Lowest(Before(j))
       /\ Highest(After(j + 1)) >= Highest(Before(j))

\* C30 witness: 42 is written, the cursor goes 300 cells to the right and
\* 300 cells back through two new chunks, and reads 42 on cell 0 again; the
\* highest cell visited is cell 300.
C30_Witness ==
  /\ Len(calls) = 3
  /\ calls[1].name = "set_current_value" /\ calls[1].arg = 42
  /\ BackAndForth(2, "move_right_by", "move_left_by") /\ calls[2].arg = 300
  /\ Index(tape) = 0 /\ cattle_tape_get_current_value(tape) = 42
  /\ Highest(tape) = 300 /\ tape.last = 2


\* The recorded pushes that no pop has taken yet after the first k calls,
\* the last one first.
RECURSIVE OpenPushes(_)
OpenPushes(k) ==
  IF k = 0 THEN << >>
  ELSE LET open == OpenPushes(k - 1)
       IN  IF calls[k].name = "push_bookmark" THEN << k >> \o open
           ELSE IF calls[k].name = "pop_bookmark" /\ open # << >> THEN Tail(open)
           ELSE open

\* C31: a pop_bookmark with a push still open returns TRUE and puts the
\* cursor on the cell it was on at the last such push, whatever moves and
\* writes came in between, so that nested pushes are taken back last one
\* first; a pop with no push open returns FALSE and leaves the cursor where
\* it is. A pop changes no cell.
C31_BookmarksLifo ==
  \A k \in 1..Len(calls) :
    calls[k].name = "pop_bookmark" =>
      LET open == OpenPushes(k - 1)
      IN  /\ SameValues(After(k), Before(k))
          /\ IF open = << >>
             THEN /\ ~ calls[k].ret
                  /\ Index(After(k)) = Index(Before(k))
             ELSE /\ calls[k].ret
                  /\ Index(After(k)) = Index(Before(open[1]))

\* C31 witness: a push on cell 0, a move of 300 cells to the right, a push
\* there, and two pops: the first has left the cursor on cell 300, the
\* second has put it back on cell 0.
C31_Witness ==
  /\ Len(calls) = 5
  /\ calls[1].name = "push_bookmark"
  /\ calls[2].name = "move_right_by" /\ calls[2].arg = 300
  /\ calls[3].name = "push_bookmark"
  /\ calls[4].name = "pop_bookmark" /\ calls[4].ret
  /\ calls[5].name = "pop_bookmark" /\ calls[5].ret
  /\ Index(calls[5].tape) = 300
  /\ Index(tape) = 0 /\ tape.bookmarks = << >>

\* C31 witness (empty stack): a pop on a tape moved 2 cells to the left and
\* holding no bookmark has returned FALSE.
C31_WitnessEmpty ==
  /\ Len(calls) = 2
  /\ calls[1].name = "move_left_by" /\ calls[1].arg = 2
  /\ calls[2].name = "pop_bookmark" /\ ~ calls[2].ret
  /\ Index(tape) = -2


\* The j-th call and the next one add and subtract the same amount, the
\* first with a, the second with b.
AddAndSubtract(j, a, b) ==
  /\ calls[j].name = a /\ calls[j + 1].name = b
  /\ calls[j].arg = calls[j + 1].arg

\* C38: increase_by(k) followed by decrease_by(k), or decrease_by(k)
\* followed by increase_by(k), leaves in the cell the value it held, for
\* every value a cell can hold, -1 included.
C38_DecreaseUndoesIncrease ==
  \A j \in 1..(Len(calls) - 1) :
    (AddAndSubtract(j, "increase_current_value_by", "decrease_current_value_by")
     \/ AddAndSubtract(j, "decrease_current_value_by", "increase_current_value_by")) =>
       ValueAfter(j + 1) = cattle_tape_get_current_value(Before(j))


(* ------------------- claims on runs and on the loader ------------------ *)

\* C33: once the end of input has been reached in a run, every later fetch
\* of a Read of that run yields the end-of-input character, the run goes on
\* and the input handler is not called.
C33_Step ==
  (StepOn(CATTLE_INSTRUCTION_READ) /\ end_of_input_reached) =>
     /\ trace' = trace
     /\ pc' = "running"
     /\ temp' = UEOF
     /\ end_of_input_reached'

SecondRunFirstFetch ==
  /\ StepOn(CATTLE_INSTRUCTION_READ)
  /\ runs = 2 /\ steps = 0 /\ i = 0
  /\ Cell = EOF

\* C35: in a run started after a run that reached the end of input, the
\* first fetch takes the first byte of the embedded input when the program
\* has one, and calls the input handler when it has none.
C35_Step ==
  SecondRunFirstFetch =>
     /\ (program.input # NullStr /\ program.input # << >>) =>
          /\ trace' = trace
          /\ temp' = program.input[1]
     /\ program.input = NullStr => Called("input")

C35_FlagEndsWithRun == [][C35_Step]_vars

\* C39 (frame): no step of a run, the start and the return included,
\* changes the instruction tree, the embedded input of the program, or a
\* field of the configuration.
C39_FrameStep ==
  (pc = "running" \/ pc' = "running") =>
     /\ program' = program
     /\ configuration' = configuration

\* C39 (input again): a run of a program with embedded input starts with
\* the input at its first byte, whatever the runs before consumed.
C39_StartStep ==
  (pc = "idle" /\ pc' = "running" /\ program.input # NullStr) =>
     /\ input' = program.input
     /\ input_cursor' = 1
     /\ had_input'

C39_RunKeepsProgram == [][C39_FrameStep /\ C39_StartStep]_vars

\* C39 witness: `,,!abc` has run twice; the program still is what the load
\* made of the string, with the input `abc`.
C39_Witness ==
  /\ Loaded(<<44, 44, 33, 97, 98, 99>>) /\ pc = "idle" /\ runs = 2
  /\ program.input = <<97, 98, 99>>
  /\ configuration \in [end_of_input_action : EndOfInputActions, debug_is_enabled : BOOLEAN]

\* The program is the product of a successful load of one of the sources.
InstalledByLoad ==
  \E src \in Sources :
     /\ cattle_program_load_from_string(cattle_program_new, src).ok
     /\ Loaded(src)

\* The LoopBegin in whose body the instruction n stands, NULL for an
\* instruction of the root chain.
RECURSIVE Owner(_)
Owner(n) ==
  LET ins == program.instructions
      byLoop == { m \in 1..Len(ins) : ins[m].loop = n }
      byNext == { m \in 1..Len(ins) : ins[m].next = n }
  IN  IF byLoop # {} THEN CHOOSE m \in byLoop : TRUE
      ELSE IF byNext # {} THEN Owner(CHOOSE m \in byNext : TRUE)
      ELSE NULL

\* The LoopBegins around the instruction n, innermost first.
RECURSIVE Enclosing(_)
Enclosing(n) ==
  IF Owner(n) = NULL THEN << >> ELSE <<Owner(n)>> \o Enclosing(Owner(n))

\* What C34 says of the stack, in one state.
StackFollowsLoops ==
  /\ (pc = "running" /\ current # NULL) =>
        /\ stack = Enclosing(current)
        /\ Node(current).value = CATTLE_INSTRUCTION_LOOP_END =>
              /\ stack # << >>
              /\ Node(Head(stack)).value = CATTLE_INSTRUCTION_LOOP_BEGIN
        /\ Node(current).value = CATTLE_INSTRUCTION_LOOP_BEGIN =>
              Node(current).quantity = 1
  /\ (pc = "running" /\ current = NULL) => stack = << >>
  /\ (pc = "idle" /\ runs > 0) => result.error # Unbalanced

\* C34: while a program installed by a successful load runs, the stack holds
\* the LoopBegins around the current instruction, innermost on top (so its
\* depth is the nesting depth and a LoopEnd finds its own LoopBegin on top),
\* the stack is empty when the root chain is exhausted, and no run of such a
\* program ends with the unbalanced brackets error.
C34_StackDiscipline == StackFollowsLoops \/ ~ InstalledByLoad

\* The inner `]` of `+[[-]]` is about to be executed, two loops deep.
C34_Witness ==
  /\ Loaded(<<43, 91, 91, 45, 93, 93>>)
  /\ pc = "running"
  /\ current # NULL
  /\ Node(current).value = CATTLE_INSTRUCTION_LOOP_END
  /\ Len(stack) = 2
  /\ Cell = 0

\* The position of the `]` that closes the `[` at position k of a string
\* with balanced brackets.
MatchOf(str, k) ==
  CHOOSE m \in (k + 1)..Len(str) :
     /\ str[m] = 93
     /\ Depth(str, m) = Depth(str, k - 1)
     /\ \A j \in k..(m - 1) : Depth(str, j) > Depth(str, k - 1)

\* C36: a load succeeds only if the brackets before the first `!` are closed
\* when the `!` (or the end of the string) comes; then the parse of the body
\* of every `[` stops just after the `]` that matches it, the outermost
\* parse stops just after the first `!` or at the end of the string, and
\* the tree spells opcodes that stand before the first `!` only.
C36_BangAtDepthZero ==
  (LoadCalled /\ loaded.success) =>
     LET str  == loaded.string
         code == CodePart(str)
     IN  /\ Depth(code, Len(code)) = 0
         /\ \A k \in 1..Len(code) :
               code[k] = 91 =>
                  /\ \E m \in (k + 1)..Len(code) : code[m] = 93
                  /\ load_from_string_real(str, k + 1, << >>).pos = MatchOf(code, k) + 1
         /\ load_from_string_real(str, 1, << >>).pos
               = IF BangAt(str) <= Len(str) THEN BangAt(str) + 1 ELSE Len(str) + 1
         /\ Len(Spell(program.instructions, 1)) = Len(OpcodesOf(code))

\* `,[+.,]!so` is loaded: the parse of the loop body stopped after the `]`,
\* and `so` is the input.
C36_Witness ==
  /\ loaded.string = <<44, 91, 43, 46, 44, 93, 33, 115, 111>> /\ loaded.success
  /\ load_from_string_real(loaded.string, 3, << >>).pos = 7
  /\ program.input = <<115, 111>>

\* `+x++![` is loaded: the `[` after the `!` is input and not a LoopBegin.
C36_WitnessAfterBang ==
  /\ loaded.string = <<43, 120, 43, 43, 33, 91>> /\ loaded.success
  /\ program.input = <<91>>
  /\ \A n \in DOMAIN program.instructions :
        program.instructions[n].value # CATTLE_INSTRUCTION_LOOP_BEGIN

\* C37: in a loaded tree no instruction that is not a bracket is followed
\* through next by an instruction of the same opcode, also when comment
\* bytes stand between the two runs in the source: `+x+` is one Increase of
\* quantity 2.
C37_MaximalCoalescing ==
  (LoadCalled /\ loaded.success) =>
     LET heap == program.instructions
     IN  /\ \A n \in DOMAIN heap :
               (heap[n].value \in SimpleInstructions /\ heap[n].next # NULL) =>
                  heap[heap[n].next].value # heap[n].value
         /\ loaded.string = <<43, 120, 43>> =>
               /\ heap[1].value = CATTLE_INSTRUCTION_INCREASE
               /\ heap[1].quantity = 2

(* --------------------- claims on the instructions ---------------------- *)

\* The step is a call of cattle_instruction_set_quantity with quantity 0.
SetsQuantityZero ==
  /\ calls' # calls
  /\ calls'[Len(calls')].name = "set_quantity"
  /\ calls'[Len(calls')].arg = 0

C40_Step == SetsQuantityZero => program'.instructions = program.instructions

QuantitiesAtLeastOne ==
  \A n \in DOMAIN program.instructions : program.instructions[n].quantity >= 1

\* C40: a call that sets the quantity of an instruction to 0 leaves the
\* quantity as it was, and every instruction has a quantity of at least 1.
C40_ZeroQuantityRejected == [][C40_Step]_vars /\ []QuantitiesAtLeastOne

(* ------------------- claims on the expanded tree ----------------------- *)

\* The handler calls of a run as the handlers saw them: kind, value, and
\* what the handler did.
Heard(tr) ==
  [ k \in 1..Len(tr) |->
      [kind |-> tr[k].kind, value |-> tr[k].value, ret |-> tr[k].ret,
       err |-> tr[k].err, feeds |-> tr[k].feeds] ]

\* Both runs are over.
BothRunsOver == pc = "idle" /\ runs = 2 /\ calls # << >>

\* C32: the run of a loaded tree and the run of its expanded tree, with the
\* same configuration and the same handler behaviour, leave the same cells
\* and the same cursor, make the same handler calls and have the same
\* result.
C32_ExpandedRunsAlike ==
  BothRunsOver =>
     /\ SameValues(tape, calls[1].tape)
     /\ Index(tape) = Index(calls[1].tape)
     /\ Heard(trace) = Heard(calls[1].arg)
     /\ result = calls[1].ret

====
